---------------------------- MODULE Spec2Model ----------------------------
(***************************************************************************)
(* A model of the CIFAR notebooks of deep-learning-course-pytorch:         *)
(*   - AverageMeter, train_one_epoch, validate and the training script of  *)
(*     the CNN notebook (src/unnamed/part_000 lines 344-646, the same      *)
(*     cells are in src/notebooks/CNN/02_CIFAR.ipynb);                     *)
(*   - BasicBlock, ResNet and resnet18 of the from-scratch ResNet notebook *)
(*     (src/unnamed/part_000 lines 803-923), as a shape calculus;          *)
(*   - the training loop of that notebook (lines 990-1006) and             *)
(*     train_one_epoch statement by statement, and show_sample_predictions *)
(*     (lines 666-681).                                                    *)
(* Floating point numbers are modelled as exact fractions <<num, den>> in  *)
(* lowest terms; tensors as their shape and a symbolic value.              *)
(***************************************************************************)
EXTENDS Integers, Sequences, FiniteSets, TLC

VARIABLES
    \* ---- control
    pc,             \* the statement the single thread of control is at
    caller,         \* where the running pass returns to
    \* ---- training script (part_000 620-646)
    epoch,          \* the loop variable of "for epoch in range(num_epochs)"
    num_epochs,
    train_loader,   \* the batch sizes the training DataLoader yields, in order
    val_loader,     \* the batch sizes the validation DataLoader yields, in order
    train_res,      \* (train_loss, train_acc) of the epoch, NoPair outside 627-637
    val_acc,        \* val_acc of the epoch, NoFloat outside 628-643
    best_val_acc,
    files,          \* the file system: path -> serialized state_dict
    writer,         \* SummaryWriter: the 'Accuracy/Validation' series
    stdout,         \* the lines printed by the training script
    \* ---- model and optimizer
    params,         \* version of the model parameters (optimizer.step makes a new one)
    training,       \* nn.Module.training
    memo,           \* what the network with the current params outputs in
                    \* evaluation mode on the validation batches evaluated so far
    \* ---- a pass of the epoch runner
    i,              \* index of the next batch of the stream
    loss_meter,     \* AverageMeter: [sum, count]
    train_accuracy, \* torchmetrics.Accuracy state: [correct, total]
    val_accuracy,
    ret,            \* the value last returned by a pass
    \* ---- history (not read by the program)
    fed,            \* the (value, n) pairs behind loss_meter since its reset
    save_log,       \* every torch.save call: [epoch, path, params]
    trace,          \* the passes, batches and decisions in the order they ran
    todo,           \* passes a stand-alone use of the epoch runner still calls
    results,        \* what those calls returned
    \* ---- ResNet forward (part_000 803-923)
    net,            \* the assembled ResNet (or the block under study)
    x0,             \* the input tensor
    x,              \* the tensor at the current point of forward
    \* ---- one batch of a training loop, statement by statement
    grad,           \* the batches whose gradients are summed in the .grad of
                    \* the parameters (<<>> after zero_grad)
    loss_item,      \* loss.item() of the batch at hand, 0 outside a batch
    running_loss    \* running_loss of the from-scratch loop (part_000 994)

vars == <<pc, caller, epoch, num_epochs, train_loader, val_loader, train_res,
          val_acc, best_val_acc, files, writer, stdout, params, training, memo,
          i, loss_meter, train_accuracy, val_accuracy, ret, fed, save_log,
          trace, todo, results, net, x0, x, grad, loss_item,
          running_loss>>

driverVars == <<epoch, num_epochs, train_res, val_acc, best_val_acc, files,
                writer, stdout, save_log>>
netVars == <<net, x0, x>>
\* what a forward pass of the ResNet notebook leaves alone
scriptVars == <<caller, driverVars, train_loader, val_loader, params, memo,
                loss_meter, train_accuracy, val_accuracy, ret, fed, trace,
                todo, results>>
harnessVars == <<todo, results>>
stepVars == <<grad, loss_item, running_loss>>

\* Python's None, for a name, for a float and for a (loss, accuracy) pair
None == "None"
NoFloat == <<0, 0>>
NoPair == [loss |-> NoFloat, acc |-> NoFloat]

----------------------------------------------------------------------------
\* Bounds of the model

\* largest weight n of a stand-alone AverageMeter.update
MaxN == 2
\* largest value of a stand-alone AverageMeter.update (the smallest is -1)
MaxValue == 2
\* most stand-alone updates between two resets
MaxUpdates == 3
\* most epochs of a run of the training script (the notebook sets 20)
MaxEpochs == 4
\* largest data set of a stand-alone use of the epoch runner
MaxSamples == 8
\* DataLoader batch size of a stand-alone use of the epoch runner (the notebook sets 64)
batch_size == 2
\* samples of the training set and the validation set of the training script
TrainSamples == 23
ValSamples == 20
\* DataLoader batch size of the training script's loaders
script_batch_size == 20
\* largest per-batch loss value
MaxLoss == 2
\* largest batch size N of an input of the ResNet or of a block
MaxBatch == 2
\* largest small height and width of an input (32 and 224 are always tried)
MaxSide == 3
\* most blocks of a stage of a ResNet
MaxBlocks == 2
\* most channels of a block studied on its own
MaxChannels == 2

----------------------------------------------------------------------------
\* Fractions: Python's float division, exactly

Abs(a) == IF a < 0 THEN -a ELSE a

RECURSIVE GCD(_, _)
GCD(a, b) == IF b = 0 THEN a ELSE GCD(b, a % b)

\* a / b for b # 0, in lowest terms with a positive denominator
Frac(a, b) ==
    LET g == GCD(Abs(a), Abs(b))
        s == IF b < 0 THEN -1 ELSE 1
    IN  <<(s * a) \div g, (s * b) \div g>>

Zero == <<0, 1>>

\* Python's a / b: ZeroDivisionError when b = 0
TrueDiv(a, b) == IF b = 0 THEN "ZeroDivisionError" ELSE Frac(a, b)

\* p > q for two fractions
FracGT(p, q) == p[1] * q[2] > q[1] * p[2]
FracGE(p, q) == p[1] * q[2] >= q[1] * p[2]

----------------------------------------------------------------------------
\* AverageMeter (part_000 344-358)

\* reset(): sum = 0, count = 0
AverageMeter_reset == [sum |-> 0, count |-> 0]

\* __init__(): self.reset()
AverageMeter_init == AverageMeter_reset

\* (a variant: the weight is left out of the sum)
AverageMeter_update_unweighted(m, value, n) ==
    [sum |-> m.sum + value, count |-> m.count + n]

\* (a variant: n is not passed on, so that update counts its default n = 1)
AverageMeter_update_default_n(m, value, n) ==
    [sum |-> m.sum + value, count |-> m.count + 1]

\* update(value, n): sum += value * n; count += n
AverageMeter_update(m, value, n) ==
    [sum |-> m.sum + value * n, count |-> m.count + n]

\* (a variant: the average of nothing is 0.0 / 0.0, the IEEE NaN)
avg_nan(m) == IF m.count > 0 THEN TrueDiv(m.sum, m.count) ELSE <<0, 0>>

\* (a variant: the division is not guarded)
avg_unguarded(m) == TrueDiv(m.sum, m.count)

\* avg: sum / count if count > 0 else 0
avg(m) == IF m.count > 0 THEN TrueDiv(m.sum, m.count) ELSE Zero


----------------------------------------------------------------------------
\* torchmetrics.Accuracy(task="multiclass") as the notebook uses it
\* (part_000 528-529): a running count of correct predictions

Metric_reset == [correct |-> 0, total |-> 0]

\* update(preds, y_batch): k of the n predictions of the batch are right
Metric_update(a, k, n) == [correct |-> a.correct + k, total |-> a.total + n]

\* compute(): correct / total, and 0 when nothing was counted
Metric_compute(a) == IF a.total = 0 THEN Zero ELSE Frac(a.correct, a.total)

\* DataLoader(dataset, batch_size): full batches, then the remainder
RECURSIVE Batches(_, _)
Batches(samples, bs) ==
    IF samples = 0 THEN <<>>
    ELSE IF samples <= bs THEN <<samples>>
    ELSE <<bs>> \o Batches(samples - bs, bs)

RECURSIVE SumSeq(_)
SumSeq(s) == IF s = <<>> THEN 0 ELSE Head(s) + SumSeq(Tail(s))

\* what criterion(outputs, y_batch).item() can be, in units of loss
LossValues == 1..MaxLoss

\* how many predictions of a batch of n can be right
TrainCorrectCounts(n) == {k \in {0, 1} : k <= n}
ValCorrectCounts(n) == {k \in {0, 1, 2, 4, 6} : k <= n}

\* optimizer.step(): the parameters take a value they never had
optimizer_step(p) == p + 1

----------------------------------------------------------------------------
\* train_one_epoch (part_000 546-572)

\* (a variant: model.train() is left out)
Train_enter_keeps_mode ==
    /\ pc = "train_one_epoch"
    /\ training' = training
    /\ loss_meter' = AverageMeter_init
    /\ fed' = <<>>
    /\ train_accuracy' = Metric_reset
    /\ i' = 1
    /\ trace' = Append(trace, <<"train_begin", epoch>>)
    /\ pc' = "train_loop"
    /\ UNCHANGED stepVars
    /\ UNCHANGED <<caller, driverVars, train_loader, val_loader, params, memo,
                   val_accuracy, ret, harnessVars, netVars>>

\* 547-550: model.train(); loss_meter = AverageMeter(); accuracy_metric.reset()
Train_enter ==
    /\ pc = "train_one_epoch"
    /\ training' = TRUE
    /\ loss_meter' = AverageMeter_init
    /\ fed' = <<>>
    /\ train_accuracy' = Metric_reset
    /\ i' = 1
    /\ trace' = Append(trace, <<"train_begin", epoch>>)
    /\ pc' = "train_loop"
    /\ UNCHANGED stepVars
    /\ UNCHANGED <<caller, driverVars, train_loader, val_loader, params, memo,
                   val_accuracy, ret, harnessVars, netVars>>

\* 552-567: one batch: forward, loss, zero_grad, backward, step, bookkeeping
Train_batch ==
    /\ pc = "train_loop"
    /\ i <= Len(train_loader)
    /\ LET n == train_loader[i] IN
       \E loss \in LossValues, k \in TrainCorrectCounts(n) :
          /\ params' = optimizer_step(params)
          /\ memo' = <<>>
          /\ loss_meter' = AverageMeter_update(loss_meter, loss, n)
          /\ fed' = Append(fed, <<loss, n>>)
          /\ train_accuracy' = Metric_update(train_accuracy, k, n)
    /\ i' = i + 1
    /\ trace' = Append(trace, <<"train_batch", epoch, i>>)
    /\ grad' = <<i>>
    /\ UNCHANGED <<loss_item, running_loss>>
    /\ UNCHANGED <<pc, caller, driverVars, train_loader, val_loader, training,
                   val_accuracy, ret, harnessVars, netVars>>

\* 569-572: return avg_loss, avg_accuracy
Train_return ==
    /\ pc = "train_loop"
    /\ i > Len(train_loader)
    /\ ret' = [loss |-> avg(loss_meter), acc |-> Metric_compute(train_accuracy)]
    /\ trace' = Append(trace, <<"train_end", epoch>>)
    /\ pc' = caller
    /\ UNCHANGED stepVars
    /\ UNCHANGED <<caller, driverVars, train_loader, val_loader, params,
                   training, memo, i, loss_meter, train_accuracy, val_accuracy,
                   fed, harnessVars, netVars>>

----------------------------------------------------------------------------
\* validate (part_000 581-604)

\* (a variant: the accuracy metric is not reset)
Validate_enter_no_metric_reset ==
    /\ pc = "validate"
    /\ training' = FALSE
    /\ loss_meter' = AverageMeter_init
    /\ fed' = <<>>
    /\ i' = 1
    /\ trace' = Append(trace, <<"val_begin", epoch>>)
    /\ pc' = "val_loop"
    /\ UNCHANGED stepVars
    /\ UNCHANGED <<caller, driverVars, train_loader, val_loader, params, memo,
                   train_accuracy, val_accuracy, ret, harnessVars, netVars>>

\* 582-585: model.eval(); loss_meter = AverageMeter(); accuracy_metric.reset()
Validate_enter ==
    /\ pc = "validate"
    /\ training' = FALSE
    /\ loss_meter' = AverageMeter_init
    /\ fed' = <<>>
    /\ val_accuracy' = Metric_reset
    /\ i' = 1
    /\ trace' = Append(trace, <<"val_begin", epoch>>)
    /\ pc' = "val_loop"
    /\ UNCHANGED stepVars
    /\ UNCHANGED <<caller, driverVars, train_loader, val_loader, params, memo,
                   train_accuracy, ret, harnessVars, netVars>>

\* (a variant: the validation batch is followed by an optimizer step)
Validate_batch_with_step ==
    /\ pc = "val_loop"
    /\ i <= Len(val_loader)
    /\ LET n == val_loader[i] IN
       \E loss \in LossValues, k \in ValCorrectCounts(n) :
          /\ IF i <= Len(memo)
             THEN memo[i] = [loss |-> loss, correct |-> k] /\ memo' = memo
             ELSE memo' = Append(memo, [loss |-> loss, correct |-> k])
          /\ loss_meter' = AverageMeter_update(loss_meter, loss, n)
          /\ fed' = Append(fed, <<loss, n>>)
          /\ val_accuracy' = Metric_update(val_accuracy, k, n)
    /\ params' = optimizer_step(params)
    /\ i' = i + 1
    /\ trace' = Append(trace, <<"val_batch", epoch, i>>)
    /\ UNCHANGED stepVars
    /\ UNCHANGED <<pc, caller, driverVars, train_loader, val_loader, training,
                   train_accuracy, ret, harnessVars, netVars>>

\* 587-599: one batch under torch.no_grad(): forward, loss, bookkeeping.
\* The validation loader does not shuffle and its transform is deterministic,
\* so the outputs on batch i are a function of the parameters: the first
\* evaluation under the current parameters chooses them, later ones repeat them.
Validate_batch ==
    /\ pc = "val_loop"
    /\ i <= Len(val_loader)
    /\ LET n == val_loader[i] IN
       \E loss \in LossValues, k \in ValCorrectCounts(n) :
          /\ IF i <= Len(memo)
             THEN memo[i] = [loss |-> loss, correct |-> k] /\ memo' = memo
             ELSE memo' = Append(memo, [loss |-> loss, correct |-> k])
          /\ loss_meter' = AverageMeter_update(loss_meter, loss, n)
          /\ fed' = Append(fed, <<loss, n>>)
          /\ val_accuracy' = Metric_update(val_accuracy, k, n)
    /\ params' = params
    /\ i' = i + 1
    /\ trace' = Append(trace, <<"val_batch", epoch, i>>)
    /\ UNCHANGED stepVars
    /\ UNCHANGED <<pc, caller, driverVars, train_loader, val_loader, training,
                   train_accuracy, ret, harnessVars, netVars>>

\* 601-604: return avg_loss, avg_accuracy
Validate_return ==
    /\ pc = "val_loop"
    /\ i > Len(val_loader)
    /\ ret' = [loss |-> avg(loss_meter), acc |-> Metric_compute(val_accuracy)]
    /\ trace' = Append(trace, <<"val_end", epoch>>)
    /\ pc' = caller
    /\ UNCHANGED stepVars
    /\ UNCHANGED <<caller, driverVars, train_loader, val_loader, params,
                   training, memo, i, loss_meter, train_accuracy, val_accuracy,
                   fed, harnessVars, netVars>>

----------------------------------------------------------------------------
\* The training script (part_000 620-646)

\* (a variant: one checkpoint file per epoch)
CheckpointPath_per_epoch(e) == <<"best_model", e, ".pth">>

\* torch.save(model.state_dict(), "best_model.pth"): the path does not
\* depend on the epoch
CheckpointPath(e) == "best_model.pth"

\* (a variant: an existing file is left as it is)
torch_save_keeps_existing(fs, path, obj) ==
    [p \in DOMAIN fs \cup {path} |-> IF p \in DOMAIN fs THEN fs[p] ELSE obj]

\* torch.save(obj, path): create the file or replace its content
torch_save(fs, path, obj) ==
    [p \in DOMAIN fs \cup {path} |-> IF p = path THEN obj ELSE fs[p]]

\* (a variant: every epoch counts as an improvement)
Improves_always(acc, best) == TRUE

\* (a variant: a tie also counts as an improvement)
Improves_or_ties(acc, best) == FracGE(acc, best)

\* (a variant: the comparison is against the initial 0.0, not the best so far)
Improves_on_initial(acc, best) == FracGT(acc, Zero)

\* 640: val_acc > best_val_acc
Improves(acc, best) == FracGT(acc, best)

\* (a variant: the loop stops early, after an epoch that did not improve)
Driver_loop_early_stop ==
    /\ pc = "L626"
    /\ IF /\ epoch < num_epochs
          /\ epoch = 0 \/ (save_log # <<>> /\
                           save_log[Len(save_log)].epoch = epoch - 1)
       THEN pc' = "train_one_epoch" /\ caller' = "L627"
       ELSE pc' = "L646" /\ caller' = caller
    /\ UNCHANGED stepVars
    /\ UNCHANGED <<driverVars, train_loader, val_loader, params, training,
                   memo, i, loss_meter, train_accuracy, val_accuracy, ret, fed,
                   trace, harnessVars, netVars>>

\* (a variant: the validation pass of an epoch runs before its training pass)
Driver_loop_validate_first ==
    /\ pc = "L626"
    /\ IF epoch < num_epochs
       THEN pc' = "validate" /\ caller' = "L626v"
       ELSE pc' = "L646" /\ caller' = caller
    /\ UNCHANGED stepVars
    /\ UNCHANGED <<driverVars, train_loader, val_loader, params, training,
                   memo, i, loss_meter, train_accuracy, val_accuracy, ret, fed,
                   trace, harnessVars, netVars>>

\* 626: for epoch in range(num_epochs); 627: the call of train_one_epoch
Driver_loop ==
    /\ pc = "L626"
    /\ IF epoch < num_epochs
       THEN pc' = "train_one_epoch" /\ caller' = "L627"
       ELSE pc' = "L646" /\ caller' = caller
    /\ UNCHANGED stepVars
    /\ UNCHANGED <<driverVars, train_loader, val_loader, params, training,
                   memo, i, loss_meter, train_accuracy, val_accuracy, ret, fed,
                   trace, harnessVars, netVars>>

\* 627: train_loss, train_acc = <returned>; 628: the call of validate
Driver_call_validate ==
    /\ pc = "L627"
    /\ train_res' = ret
    /\ pc' = "validate"
    /\ caller' = "L628"
    /\ UNCHANGED stepVars
    /\ UNCHANGED <<epoch, num_epochs, val_acc, best_val_acc, files, writer,
                   stdout, save_log, train_loader, val_loader, params, training,
                   memo, i, loss_meter, train_accuracy, val_accuracy, ret, fed,
                   trace, harnessVars, netVars>>

\* 628: val_loss, val_acc = <returned>; 631-634: writer.add_scalar;
\* 636-637: print the epoch summary. train_loss, train_acc and val_loss are
\* not read again.
Driver_log ==
    /\ pc = "L628"
    /\ val_acc' = ret.acc
    /\ writer' = Append(writer, [step |-> epoch, value |-> ret.acc])
    /\ stdout' = Append(stdout, [line |-> "Epoch", epoch |-> epoch + 1,
                                 of |-> num_epochs])
    /\ train_res' = NoPair
    /\ pc' = "L640"
    /\ UNCHANGED stepVars
    /\ UNCHANGED <<caller, epoch, num_epochs, best_val_acc, files, save_log,
                   train_loader, val_loader, params, training, memo, i,
                   loss_meter, train_accuracy, val_accuracy, ret, fed, trace,
                   harnessVars, netVars>>

\* 640-643: save the best model; then the next iteration of the loop
Driver_save_best ==
    /\ pc = "L640"
    /\ IF Improves(val_acc, best_val_acc)
       THEN /\ best_val_acc' = val_acc
            /\ files' = torch_save(files, CheckpointPath(epoch), params)
            /\ save_log' = Append(save_log, [epoch |-> epoch,
                                  path |-> CheckpointPath(epoch),
                                  params |-> params])
            /\ stdout' = Append(stdout, [line |-> "Best model saved",
                                epoch |-> epoch + 1, of |-> num_epochs])
       ELSE UNCHANGED <<best_val_acc, files, save_log, stdout>>
    /\ trace' = Append(trace, <<"decide", epoch>>)
    /\ val_acc' = NoFloat
    /\ epoch' = epoch + 1
    /\ pc' = "L626"
    /\ UNCHANGED stepVars
    /\ UNCHANGED <<caller, num_epochs, train_res, writer, train_loader,
                   val_loader, params, training, memo, i, loss_meter,
                   train_accuracy, val_accuracy, ret, fed, harnessVars, netVars>>

\* 646: writer.close()
Driver_close ==
    /\ pc = "L646"
    /\ pc' = "done"
    /\ UNCHANGED stepVars
    /\ UNCHANGED <<caller, driverVars, train_loader, val_loader, params,
                   training, memo, i, loss_meter, train_accuracy, val_accuracy,
                   ret, fed, trace, harnessVars, netVars>>

----------------------------------------------------------------------------
\* Initial states

\* nothing of the ResNet notebook is in use
NetIdle == net = None /\ x0 = None /\ x = None

\* nothing of the training script has run: 621 writer = SummaryWriter(),
\* 625 best_val_acc = 0.0, no checkpoint on disk
ScriptStart ==
    /\ epoch = 0
    /\ train_res = NoPair
    /\ val_acc = NoFloat
    /\ best_val_acc = Zero
    /\ files = <<>>
    /\ writer = <<>>
    /\ stdout = <<>>
    /\ save_log = <<>>

\* 507-529: a new model (in training mode), optimizer and metrics
ModelStart ==
    /\ params = 0
    /\ training = TRUE
    /\ memo = <<>>
    /\ train_accuracy = Metric_reset
    /\ val_accuracy = Metric_reset

\* no batch is at hand and no gradient has been computed
StepIdle ==
    /\ grad = <<>>
    /\ loss_item = 0
    /\ running_loss = 0

PassIdle ==
    /\ i = 1
    /\ loss_meter = AverageMeter_init
    /\ ret = NoPair
    /\ fed = <<>>
    /\ trace = <<>>

\* The training script, for every epoch count up to MaxEpochs
Init ==
    /\ StepIdle
    /\ pc = "L626"
    /\ caller = None
    /\ num_epochs \in 0..MaxEpochs
    /\ train_loader = Batches(TrainSamples, script_batch_size)
    /\ val_loader = Batches(ValSamples, script_batch_size)
    /\ ScriptStart
    /\ ModelStart
    /\ PassIdle
    /\ todo = <<>>
    /\ results = <<>>
    /\ NetIdle

Next ==
    \/ Driver_loop
    \/ Train_enter
    \/ Train_batch
    \/ Train_return
    \/ Driver_call_validate
    \/ Validate_enter
    \/ Validate_batch
    \/ Validate_return
    \/ Driver_log
    \/ Driver_save_best
    \/ Driver_close

Spec == Init /\ [][Next]_vars

\* the script is a sequential program: it keeps running until it ends
FairSpec == Spec /\ WF_vars(Next)

----------------------------------------------------------------------------
\* AverageMeter on its own: any sequence of update and reset calls

\* m = AverageMeter()
InitMeter ==
    /\ StepIdle
    /\ pc = "meter"
    /\ caller = None
    /\ num_epochs = 0
    /\ train_loader = <<>>
    /\ val_loader = <<>>
    /\ ScriptStart
    /\ ModelStart
    /\ PassIdle
    /\ todo = <<>>
    /\ results = <<>>
    /\ NetIdle

\* m.update(value, n)
Meter_update ==
    /\ pc = "meter"
    /\ Len(fed) < MaxUpdates
    /\ \E value \in -1..MaxValue, n \in 0..MaxN :
          /\ loss_meter' = AverageMeter_update(loss_meter, value, n)
          /\ fed' = Append(fed, <<value, n>>)
    /\ UNCHANGED stepVars
    /\ UNCHANGED <<pc, caller, driverVars, train_loader, val_loader, params,
                   training, memo, i, train_accuracy, val_accuracy, ret, trace,
                   harnessVars, netVars>>

\* m.reset()
Meter_reset ==
    /\ pc = "meter"
    /\ fed # <<>>
    /\ loss_meter' = AverageMeter_reset
    /\ fed' = <<>>
    /\ UNCHANGED stepVars
    /\ UNCHANGED <<pc, caller, driverVars, train_loader, val_loader, params,
                   training, memo, i, train_accuracy, val_accuracy, ret, trace,
                   harnessVars, netVars>>

NextMeter == Meter_update \/ Meter_reset

SpecMeter == InitMeter /\ [][NextMeter]_vars

----------------------------------------------------------------------------
\* The epoch runner on its own: one training pass, or two validation passes
\* in a row, over any stream of up to MaxSamples samples

Scripts == {<<"train_one_epoch">>, <<"validate", "validate">>}

\* the state a metric object is in when a pass is called: new, or as an
\* earlier pass left it
MetricStates == {Metric_reset, [correct |-> 1, total |-> 2]}

InitPass ==
    /\ StepIdle
    /\ pc = "H"
    /\ caller = None
    /\ num_epochs = 0
    /\ \E samples \in 0..MaxSamples :
          /\ train_loader = Batches(samples, batch_size)
          /\ val_loader = Batches(samples, batch_size)
    /\ ScriptStart
    /\ params = 0
    /\ training \in BOOLEAN
    /\ memo = <<>>
    /\ train_accuracy \in MetricStates
    /\ val_accuracy = train_accuracy
    /\ PassIdle
    /\ todo \in Scripts
    /\ results = <<>>
    /\ NetIdle

\* the next pass is called
Harness_call ==
    /\ pc = "H"
    /\ todo # <<>>
    /\ pc' = Head(todo)
    /\ caller' = "H_ret"
    /\ todo' = Tail(todo)
    /\ results' = Append(results, [fn |-> Head(todo), before |-> params,
                                   out |-> NoPair, after |-> -1])
    /\ UNCHANGED stepVars
    /\ UNCHANGED <<driverVars, train_loader, val_loader, params, training,
                   memo, i, loss_meter, train_accuracy, val_accuracy, ret, fed,
                   trace, netVars>>

\* the pass has returned
Harness_ret ==
    /\ pc = "H_ret"
    /\ results' = [results EXCEPT ![Len(results)].out = ret,
                                  ![Len(results)].after = params]
    /\ pc' = "H"
    /\ UNCHANGED stepVars
    /\ UNCHANGED <<caller, driverVars, train_loader, val_loader, params,
                   training, memo, i, loss_meter, train_accuracy, val_accuracy,
                   ret, fed, trace, todo, netVars>>

NextPass ==
    \/ Harness_call
    \/ Train_enter
    \/ Train_batch
    \/ Train_return
    \/ Validate_enter
    \/ Validate_batch
    \/ Validate_return
    \/ Harness_ret

SpecPass == InitPass /\ [][NextPass]_vars

----------------------------------------------------------------------------
\* The training script when a pass fails. Neither train_one_epoch, validate
\* nor the loop at 626-646 has a try statement: an exception raised in a
\* batch (by the model, the criterion, the optimizer or the metric) unwinds
\* through the pass and the loop, and the script is over.

\* the parts of the state an unwinding exception leaves as they are
failFrame == <<caller, driverVars, train_loader, val_loader, training, memo,
               i, loss_meter, train_accuracy, val_accuracy, ret, fed,
               harnessVars, netVars>>

\* (a variant: the loop catches the exception and goes on to the next epoch)
Train_fails_caught ==
    /\ pc = "train_loop"
    /\ i <= Len(train_loader)
    /\ params' = params
    /\ trace' = Append(trace, <<"failed", epoch, "train_one_epoch">>)
    /\ pc' = "L626"
    /\ epoch' = epoch + 1
    /\ UNCHANGED stepVars
    /\ UNCHANGED <<caller, num_epochs, train_res, val_acc, best_val_acc, files,
                   writer, stdout, save_log, train_loader, val_loader,
                   training, memo, i, loss_meter, train_accuracy, val_accuracy,
                   ret, fed, harnessVars, netVars>>

\* 552-567: a statement of the batch raises, before optimizer.step() (555-559)
\* or after it (563-567)
Train_fails ==
    /\ pc = "train_loop"
    /\ i <= Len(train_loader)
    /\ \E stepped \in BOOLEAN :
          params' = IF stepped THEN optimizer_step(params) ELSE params
    /\ trace' = Append(trace, <<"failed", epoch, "train_one_epoch">>)
    /\ pc' = "failed"
    /\ UNCHANGED stepVars
    /\ UNCHANGED <<failFrame>>

\* 587-599: a statement of the validation batch raises
Validate_fails ==
    /\ pc = "val_loop"
    /\ i <= Len(val_loader)
    /\ trace' = Append(trace, <<"failed", epoch, "validate">>)
    /\ pc' = "failed"
    /\ UNCHANGED stepVars
    /\ UNCHANGED <<failFrame, params>>

NextFail ==
    \/ Next
    \/ Train_fails
    \/ Validate_fails

SpecFail == Init /\ [][NextFail]_vars

----------------------------------------------------------------------------
\* show_sample_predictions (part_000 666-681) among the passes

\* the images show_sample_predictions plots (range(8), 676)
ShownImages == 8

\* 667-681: model.eval(); under torch.no_grad() the first batch of the
\* loader is evaluated and its first 8 images are plotted. next(iter(...))
\* of an empty loader raises StopIteration, X_batch[i] beyond the batch
\* raises IndexError; either way model.eval() has run.
Show_sample_predictions ==
    /\ pc = "show_sample_predictions"
    /\ training' = FALSE
    /\ trace' = Append(trace,
          IF val_loader = <<>> THEN <<"show", "StopIteration">>
          ELSE IF val_loader[1] < ShownImages THEN <<"show", "IndexError">>
          ELSE <<"show", "shown">>)
    /\ pc' = caller
    /\ UNCHANGED stepVars
    /\ UNCHANGED <<caller, driverVars, train_loader, val_loader, params, memo,
                   i, loss_meter, train_accuracy, val_accuracy, ret, fed,
                   harnessVars, netVars>>

\* the cells a user runs one after the other
Calls == {"train_one_epoch", "validate", "show_sample_predictions"}

\* every sequence of up to three calls
CallSequences == UNION {[1..len -> Calls] : len \in 1..3}

\* any sequence of passes and show_sample_predictions calls, on streams of
\* up to two batches, whatever the mode of the model at the start
InitMode ==
    /\ StepIdle
    /\ pc = "H"
    /\ caller = None
    /\ num_epochs = 0
    /\ \E samples \in 0..(batch_size + 1) :
          /\ train_loader = Batches(samples, batch_size)
          /\ val_loader = Batches(samples, batch_size)
    /\ ScriptStart
    /\ params = 0
    /\ training \in BOOLEAN
    /\ memo = <<>>
    /\ train_accuracy = Metric_reset
    /\ val_accuracy = Metric_reset
    /\ PassIdle
    /\ todo \in CallSequences
    /\ results = <<>>
    /\ NetIdle

NextMode ==
    \/ Harness_call
    \/ Train_enter
    \/ Train_batch
    \/ Train_return
    \/ Validate_enter
    \/ Validate_batch
    \/ Validate_return
    \/ Show_sample_predictions
    \/ Harness_ret

SpecMode == InitMode /\ [][NextMode]_vars

----------------------------------------------------------------------------
\* The two training loops of the repository, statement by statement:
\* train_one_epoch (part_000 546-572) and the loop of the from-scratch ResNet
\* notebook (part_000 990-1006)

\* what neither loop touches
loopFrame == <<caller, train_loader, val_loader, train_res, val_acc,
               best_val_acc, files, writer, save_log, val_accuracy, num_epochs,
               harnessVars, netVars>>

\* the statement is entered in the history
Log(name) == trace' = Append(trace, <<name, epoch, i>>)

\* (a variant: the gradients are not reset)
zero_grad_skipped(g) == g

\* optimizer.zero_grad()
zero_grad(g) == <<>>

\* loss.backward() of batch k: its gradients are added to the .grad fields
backward(g, k) == Append(g, k)

\* 547-550: model.train(); loss_meter = AverageMeter(); accuracy_metric.reset()
TrainStmt_enter ==
    /\ pc = "L547"
    /\ training' = TRUE
    /\ loss_meter' = AverageMeter_init
    /\ fed' = <<>>
    /\ train_accuracy' = Metric_reset
    /\ i' = 0
    /\ pc' = "L552"
    /\ UNCHANGED <<loopFrame, epoch, stdout, params, memo, trace, ret, stepVars>>

\* 552: for X_batch, y_batch in progress_bar
TrainStmt_for ==
    /\ pc = "L552"
    /\ IF i < Len(train_loader)
       THEN i' = i + 1 /\ pc' = "L555"
       ELSE i' = i /\ pc' = "L569"
    /\ UNCHANGED <<loopFrame, epoch, stdout, params, training, memo,
                   loss_meter, train_accuracy, fed, trace, ret, stepVars>>

\* 555: outputs = model(X_batch)
TrainStmt_forward ==
    /\ pc = "L555"
    /\ Log("forward")
    /\ pc' = "L556"
    /\ UNCHANGED <<loopFrame, epoch, stdout, params, training, memo, i,
                   loss_meter, train_accuracy, fed, ret, stepVars>>

\* (a variant: backward() follows the loss at once, zero_grad() is left out)
TrainStmt_loss_then_backward ==
    /\ pc = "L556"
    /\ \E l \in LossValues : loss_item' = l
    /\ Log("loss")
    /\ pc' = "L559"
    /\ UNCHANGED <<loopFrame, epoch, stdout, params, training, memo, i,
                   loss_meter, train_accuracy, fed, ret, grad, running_loss>>

\* 556: loss = criterion(outputs, y_batch)
TrainStmt_loss ==
    /\ pc = "L556"
    /\ \E l \in LossValues : loss_item' = l
    /\ Log("loss")
    /\ pc' = "L558"
    /\ UNCHANGED <<loopFrame, epoch, stdout, params, training, memo, i,
                   loss_meter, train_accuracy, fed, ret, grad, running_loss>>

\* 558: optimizer.zero_grad()
TrainStmt_zero_grad ==
    /\ pc = "L558"
    /\ grad' = zero_grad(grad)
    /\ Log("zero_grad")
    /\ pc' = "L559"
    /\ UNCHANGED <<loopFrame, epoch, stdout, params, training, memo, i,
                   loss_meter, train_accuracy, fed, ret, loss_item,
                   running_loss>>

\* 559: loss.backward()
TrainStmt_backward ==
    /\ pc = "L559"
    /\ grad' = backward(grad, i)
    /\ Log("backward")
    /\ pc' = "L560"
    /\ UNCHANGED <<loopFrame, epoch, stdout, params, training, memo, i,
                   loss_meter, train_accuracy, fed, ret, loss_item,
                   running_loss>>

\* 560: optimizer.step()
TrainStmt_step ==
    /\ pc = "L560"
    /\ params' = optimizer_step(params)
    /\ memo' = <<>>
    /\ Log("step")
    /\ pc' = "L563"
    /\ UNCHANGED <<loopFrame, epoch, stdout, training, i, loss_meter,
                   train_accuracy, fed, ret, stepVars>>

\* 563-567: loss_meter.update(loss.item(), X_batch.size(0)); preds = ...;
\* accuracy_metric.update(preds, y_batch); progress_bar.set_postfix(...)
TrainStmt_update ==
    /\ pc = "L563"
    /\ LET n == train_loader[i] IN
       \E k \in TrainCorrectCounts(n) :
          /\ loss_meter' = AverageMeter_update(loss_meter, loss_item, n)
          /\ fed' = Append(fed, <<loss_item, n>>)
          /\ train_accuracy' = Metric_update(train_accuracy, k, n)
    /\ loss_item' = 0
    /\ pc' = "L552"
    /\ UNCHANGED <<loopFrame, epoch, stdout, params, training, memo, i, trace,
                   ret, grad, running_loss>>

\* 569-572: return avg_loss, avg_accuracy
TrainStmt_return ==
    /\ pc = "L569"
    /\ ret' = [loss |-> avg(loss_meter), acc |-> Metric_compute(train_accuracy)]
    /\ pc' = "returned"
    /\ UNCHANGED <<loopFrame, epoch, stdout, params, training, memo, i,
                   loss_meter, train_accuracy, fed, trace, stepVars>>

\* 992: for epoch in range(num_epochs)
Scratch_epoch ==
    /\ pc = "L992"
    /\ pc' = IF epoch < num_epochs THEN "L993" ELSE "end"
    /\ UNCHANGED <<loopFrame, epoch, stdout, params, training, memo, i,
                   loss_meter, train_accuracy, fed, trace, ret, stepVars>>

\* 993-994: model.train(); running_loss = 0.0
Scratch_begin ==
    /\ pc = "L993"
    /\ training' = TRUE
    /\ running_loss' = 0
    /\ fed' = <<>>
    /\ i' = 0
    /\ pc' = "L995"
    /\ UNCHANGED <<loopFrame, epoch, stdout, params, memo, loss_meter,
                   train_accuracy, trace, ret, grad, loss_item>>

\* 995: for inputs, labels in trainloader
Scratch_for ==
    /\ pc = "L995"
    /\ IF i < Len(train_loader)
       THEN i' = i + 1 /\ pc' = "L998"
       ELSE i' = i /\ pc' = "L1006"
    /\ UNCHANGED <<loopFrame, epoch, stdout, params, training, memo,
                   loss_meter, train_accuracy, fed, trace, ret, stepVars>>

\* 998: optimizer.zero_grad()
Scratch_zero_grad ==
    /\ pc = "L998"
    /\ grad' = zero_grad(grad)
    /\ Log("zero_grad")
    /\ pc' = "L999"
    /\ UNCHANGED <<loopFrame, epoch, stdout, params, training, memo, i,
                   loss_meter, train_accuracy, fed, ret, loss_item,
                   running_loss>>

\* 999: outputs = model(inputs)
Scratch_forward ==
    /\ pc = "L999"
    /\ Log("forward")
    /\ pc' = "L1000"
    /\ UNCHANGED <<loopFrame, epoch, stdout, params, training, memo, i,
                   loss_meter, train_accuracy, fed, ret, stepVars>>

\* 1000: loss = criterion(outputs, labels)
Scratch_loss ==
    /\ pc = "L1000"
    /\ \E l \in LossValues : loss_item' = l
    /\ Log("loss")
    /\ pc' = "L1001"
    /\ UNCHANGED <<loopFrame, epoch, stdout, params, training, memo, i,
                   loss_meter, train_accuracy, fed, ret, grad, running_loss>>

\* 1001: loss.backward()
Scratch_backward ==
    /\ pc = "L1001"
    /\ grad' = backward(grad, i)
    /\ Log("backward")
    /\ pc' = "L1002"
    /\ UNCHANGED <<loopFrame, epoch, stdout, params, training, memo, i,
                   loss_meter, train_accuracy, fed, ret, loss_item,
                   running_loss>>

\* 1002: optimizer.step()
Scratch_step ==
    /\ pc = "L1002"
    /\ params' = optimizer_step(params)
    /\ memo' = <<>>
    /\ Log("step")
    /\ pc' = "L1004"
    /\ UNCHANGED <<loopFrame, epoch, stdout, training, i, loss_meter,
                   train_accuracy, fed, ret, stepVars>>

\* 1004: running_loss += loss.item()  (fed keeps the batch size beside it)
Scratch_add ==
    /\ pc = "L1004"
    /\ running_loss' = running_loss + loss_item
    /\ fed' = Append(fed, <<loss_item, train_loader[i]>>)
    /\ loss_item' = 0
    /\ pc' = "L995"
    /\ UNCHANGED <<loopFrame, epoch, stdout, params, training, memo, i,
                   loss_meter, train_accuracy, trace, ret, grad>>

\* 1006: print(f'Epoch [{epoch + 1}/{num_epochs}], Loss:
\* {running_loss / len(trainloader):.4f}'); the division by len(trainloader)
\* = 0 raises ZeroDivisionError
Scratch_print ==
    /\ pc = "L1006"
    /\ IF Len(train_loader) = 0
       THEN /\ pc' = "ZeroDivisionError"
            /\ UNCHANGED <<stdout, epoch>>
       ELSE /\ stdout' = Append(stdout,
                   [line |-> "Loss", epoch |-> epoch + 1, of |-> num_epochs,
                    loss |-> TrueDiv(running_loss, Len(train_loader))])
            /\ epoch' = epoch + 1
            /\ pc' = "L992"
    /\ UNCHANGED <<loopFrame, params, training, memo, i, loss_meter,
                   train_accuracy, fed, trace, ret, stepVars>>

\* the epoch counts the from-scratch loop is run with (10 in the notebook)
ScratchEpochs == {0, 1, 2}

\* either loop, on every stream of up to MaxSamples samples, whatever the
\* mode of the model and whether or not an earlier backward() has left
\* gradients (batch 0) behind
InitStep ==
    /\ \/ pc = "L547" /\ num_epochs = 0
       \/ pc = "L992" /\ num_epochs \in ScratchEpochs
    /\ caller = None
    /\ \E samples \in 0..MaxSamples :
          train_loader = Batches(samples, batch_size)
    /\ val_loader = <<>>
    /\ ScriptStart
    /\ params = 0
    /\ training \in BOOLEAN
    /\ memo = <<>>
    /\ train_accuracy = Metric_reset
    /\ val_accuracy = Metric_reset
    /\ PassIdle
    /\ todo = <<>>
    /\ results = <<>>
    /\ NetIdle
    /\ grad \in {<<>>, <<0>>}
    /\ loss_item = 0
    /\ running_loss = 0

NextStep ==
    \/ TrainStmt_enter
    \/ TrainStmt_for
    \/ TrainStmt_forward
    \/ TrainStmt_loss
    \/ TrainStmt_zero_grad
    \/ TrainStmt_backward
    \/ TrainStmt_step
    \/ TrainStmt_update
    \/ TrainStmt_return
    \/ Scratch_epoch
    \/ Scratch_begin
    \/ Scratch_for
    \/ Scratch_zero_grad
    \/ Scratch_forward
    \/ Scratch_loss
    \/ Scratch_backward
    \/ Scratch_step
    \/ Scratch_add
    \/ Scratch_print

SpecStep == InitStep /\ [][NextStep]_vars

----------------------------------------------------------------------------
\* Tensors and the torch.nn layers of the ResNet notebook (part_000 803-904).
\* A tensor is its shape, its value as a term in prefix notation over the
\* input "x", and the exception raised in place of it ("" when none).

Tensor(shape, val) == [shape |-> shape, val |-> val, err |-> ""]
Raise(e) == [shape |-> <<>>, val |-> <<>>, err |-> e]

\* output size of a convolution or pooling window along one axis
WindowOut(size, k, s, p) == ((size + 2 * p - k) \div s) + 1

\* (a variant: the convolution keeps the channel count of its input)
Conv2d_keeps_channels(t, cin, cout, k, s, p, name) ==
    IF t.err # "" THEN t
    ELSE IF Len(t.shape) # 4 \/ t.shape[2] # cin THEN Raise("RuntimeError")
    ELSE IF t.shape[3] + 2 * p < k \/ t.shape[4] + 2 * p < k
         THEN Raise("RuntimeError")
    ELSE Tensor(<<t.shape[1], t.shape[2], WindowOut(t.shape[3], k, s, p),
                  WindowOut(t.shape[4], k, s, p)>>, <<name>> \o t.val)

\* nn.Conv2d(cin, cout, kernel_size=k, stride=s, padding=p, bias=False)
Conv2d(t, cin, cout, k, s, p, name) ==
    IF t.err # "" THEN t
    ELSE IF Len(t.shape) # 4 \/ t.shape[2] # cin THEN Raise("RuntimeError")
    ELSE IF t.shape[3] + 2 * p < k \/ t.shape[4] + 2 * p < k
         THEN Raise("RuntimeError")
    ELSE Tensor(<<t.shape[1], cout, WindowOut(t.shape[3], k, s, p),
                  WindowOut(t.shape[4], k, s, p)>>, <<name>> \o t.val)

\* (a variant: the training-mode check of the batch statistics is left out)
BatchNorm2d_unchecked(t, c, train, name) ==
    IF t.err # "" THEN t
    ELSE IF Len(t.shape) # 4 \/ t.shape[2] # c THEN Raise("RuntimeError")
    ELSE Tensor(t.shape, <<name>> \o t.val)

\* nn.BatchNorm2d(c). In training mode torch.nn.functional.batch_norm first
\* verifies the batch: with N * H * W = 1 it raises "ValueError: Expected
\* more than 1 value per channel when training".
BatchNorm2d(t, c, train, name) ==
    IF t.err # "" THEN t
    ELSE IF Len(t.shape) # 4 \/ t.shape[2] # c THEN Raise("RuntimeError")
    ELSE IF train /\ t.shape[1] * t.shape[3] * t.shape[4] = 1
         THEN Raise("ValueError")
    ELSE Tensor(t.shape, <<name>> \o t.val)

\* nn.ReLU(inplace=True)
ReLU(t) == IF t.err # "" THEN t ELSE Tensor(t.shape, <<"relu">> \o t.val)

\* (a variant: the pooling keeps the height and the width)
MaxPool2d_keeps_size(t, k, s, p) ==
    IF t.err # "" THEN t
    ELSE Tensor(t.shape, <<"maxpool">> \o t.val)

\* nn.MaxPool2d(kernel_size=k, stride=s, padding=p)
MaxPool2d(t, k, s, p) ==
    IF t.err # "" THEN t
    ELSE IF t.shape[3] + 2 * p < k \/ t.shape[4] + 2 * p < k
         THEN Raise("RuntimeError")
    ELSE Tensor(<<t.shape[1], t.shape[2], WindowOut(t.shape[3], k, s, p),
                  WindowOut(t.shape[4], k, s, p)>>, <<"maxpool">> \o t.val)

\* nn.AvgPool2d(kernel_size=k, stride=s, padding=p)
AvgPool2d(t, k, s, p) ==
    IF t.err # "" THEN t
    ELSE IF t.shape[3] + 2 * p < k \/ t.shape[4] + 2 * p < k
         THEN Raise("RuntimeError")
    ELSE Tensor(<<t.shape[1], t.shape[2], WindowOut(t.shape[3], k, s, p),
                  WindowOut(t.shape[4], k, s, p)>>, <<"avgpool">> \o t.val)

\* the number of elements of a tensor of this shape
RECURSIVE Numel(_)
Numel(shape) == IF shape = <<>> THEN 1 ELSE Head(shape) * Numel(Tail(shape))

\* x.view(-1, width): the elements are regrouped in rows of width, and the
\* number of rows is inferred; it raises if they do not divide evenly
View(t, width) ==
    IF t.err # "" THEN t
    ELSE IF Numel(t.shape) % width # 0 THEN Raise("RuntimeError")
    ELSE Tensor(<<Numel(t.shape) \div width, width>>, <<"view">> \o t.val)

\* nn.AdaptiveAvgPool2d((1, 1))
AdaptiveAvgPool2d(t) ==
    IF t.err # "" THEN t
    ELSE Tensor(<<t.shape[1], t.shape[2], 1, 1>>, <<"avgpool">> \o t.val)

\* torch.flatten(x, 1)
Flatten(t) ==
    IF t.err # "" THEN t
    ELSE Tensor(<<t.shape[1], t.shape[2] * t.shape[3] * t.shape[4]>>, t.val)

\* nn.Linear(fin, fout)
Linear(t, fin, fout) ==
    IF t.err # "" THEN t
    ELSE IF t.shape[Len(t.shape)] # fin THEN Raise("RuntimeError")
    ELSE Tensor([t.shape EXCEPT ![Len(t.shape)] = fout], <<"fc">> \o t.val)

\* out += identity: identity is broadcast to the shape of out, which the
\* in-place addition cannot change
AddInPlace(out, identity) ==
    IF out.err # "" THEN out
    ELSE IF identity.err # "" THEN identity
    ELSE IF \/ Len(identity.shape) # Len(out.shape)
            \/ \E d \in 1..Len(out.shape) :
                  identity.shape[d] # out.shape[d] /\ identity.shape[d] # 1
         THEN Raise("RuntimeError")
    ELSE Tensor(out.shape, <<"add">> \o out.val \o identity.val)

----------------------------------------------------------------------------
\* BasicBlock (part_000 803-832)

\* BasicBlock.expansion
expansion == 1

\* downsample=None
NoDownsample == [present |-> FALSE, cin |-> 0, cout |-> 0, stride |-> 0]

\* nn.Sequential(nn.Conv2d(cin, cout, kernel_size=1, stride=stride,
\* bias=False), nn.BatchNorm2d(cout)) (877-878)
Downsample(cin, cout, stride) ==
    [present |-> TRUE, cin |-> cin, cout |-> cout, stride |-> stride]

\* BasicBlock(in_channels, out_channels, stride, downsample) (806-814)
BasicBlock(in_channels, out_channels, stride, downsample) ==
    [in_channels |-> in_channels, out_channels |-> out_channels,
     stride |-> stride, downsample |-> downsample]

\* (a variant: the 1x1 convolution of the downsample has stride 1)
Downsample_forward_unstrided(d, t, train) ==
    BatchNorm2d(Conv2d(t, d.cin, d.cout, 1, 1, 0, "downsample.0"),
                d.cout, train, "downsample.1")

\* self.downsample(x)
Downsample_forward(d, t, train) ==
    BatchNorm2d(Conv2d(t, d.cin, d.cout, 1, d.stride, 0, "downsample.0"),
                d.cout, train, "downsample.1")

\* (a variant: the shortcut is not added)
BasicBlock_forward_no_shortcut(b, t, train) ==
    LET out1 == ReLU(BatchNorm2d(Conv2d(t, b.in_channels, b.out_channels, 3,
                                        b.stride, 1, "conv1"),
                                 b.out_channels, train, "bn1"))
        out2 == BatchNorm2d(Conv2d(out1, b.out_channels, b.out_channels, 3,
                                   1, 1, "conv2"),
                            b.out_channels, train, "bn2")
    IN  ReLU(out2)

\* 819-824: out = self.bn2(self.conv2(self.relu(self.bn1(self.conv1(x)))))
BasicBlock_main(b, t, train) ==
    LET out1 == ReLU(BatchNorm2d(Conv2d(t, b.in_channels, b.out_channels, 3,
                                        b.stride, 1, "conv1"),
                                 b.out_channels, train, "bn1"))
    IN  BatchNorm2d(Conv2d(out1, b.out_channels, b.out_channels, 3, 1, 1,
                           "conv2"),
                    b.out_channels, train, "bn2")

\* 817, 826-827: identity = x, or self.downsample(x) if there is one
BasicBlock_shortcut(b, t, train) ==
    IF b.downsample.present
    THEN Downsample_forward(b.downsample, t, train)
    ELSE t

\* BasicBlock.forward (816-832); the shortcut is computed once the main path
\* has been
BasicBlock_forward(b, t, train) ==
    LET out2 == BasicBlock_main(b, t, train)
        identity == IF out2.err = ""
                    THEN BasicBlock_shortcut(b, t, train)
                    ELSE t
    IN  ReLU(AddInPlace(out2, identity))

----------------------------------------------------------------------------
\* ResNet (part_000 855-923)

\* (a variant: the first block of a stage gets no downsample)
make_layer_no_downsample(in_channels, out_channels, blocks, stride) ==
    [blocks |->
        <<BasicBlock(in_channels, out_channels, stride, NoDownsample)>>
        \o [k \in 1..(blocks - 1) |->
               BasicBlock(out_channels * expansion, out_channels, 1,
                          NoDownsample)],
     in_channels |-> out_channels * expansion]

\* (a variant: every block of the stage gets the stride and a downsample)
make_layer_every_block_strided(in_channels, out_channels, blocks, stride) ==
    [blocks |->
        <<BasicBlock(in_channels, out_channels, stride,
                     Downsample(in_channels, out_channels * expansion,
                                stride))>>
        \o [k \in 1..(blocks - 1) |->
               BasicBlock(out_channels * expansion, out_channels, stride,
                          Downsample(out_channels * expansion,
                                     out_channels * expansion, stride))],
     in_channels |-> out_channels * expansion]

\* (a variant: self.in_channels is not updated after the first block)
make_layer_stale_tracker(in_channels, out_channels, blocks, stride) ==
    LET downsample ==
            IF stride # 1 \/ in_channels # out_channels * expansion
            THEN Downsample(in_channels, out_channels * expansion, stride)
            ELSE NoDownsample
    IN  [blocks |->
            <<BasicBlock(in_channels, out_channels, stride, downsample)>>
            \o [k \in 1..(blocks - 1) |->
                   BasicBlock(in_channels, out_channels, 1, NoDownsample)],
         in_channels |-> in_channels]

\* ResNet._make_layer (873-887), with self.in_channels passed in and out
make_layer(in_channels, out_channels, blocks, stride) ==
    LET downsample ==
            IF stride # 1 \/ in_channels # out_channels * expansion
            THEN Downsample(in_channels, out_channels * expansion, stride)
            ELSE NoDownsample
    IN  [blocks |->
            <<BasicBlock(in_channels, out_channels, stride, downsample)>>
            \o [k \in 1..(blocks - 1) |->
                   BasicBlock(out_channels * expansion, out_channels, 1,
                              NoDownsample)],
         in_channels |-> out_channels * expansion]

\* ResNet.__init__(block=BasicBlock, layers, num_classes) (856-871)
ResNet_init(layers, num_classes) ==
    LET layer1 == make_layer(64, 64, layers[1], 1)
        layer2 == make_layer(layer1.in_channels, 128, layers[2], 2)
        layer3 == make_layer(layer2.in_channels, 256, layers[3], 2)
        layer4 == make_layer(layer3.in_channels, 512, layers[4], 2)
    IN  [layers |-> layers,
         layer1 |-> layer1.blocks, layer2 |-> layer2.blocks,
         layer3 |-> layer3.blocks, layer4 |-> layer4.blocks,
         fc_in |-> 512 * expansion, num_classes |-> num_classes]

\* resnet18() (922-923); num_classes takes its default, 10
resnet18 == ResNet_init(<<2, 2, 2, 2>>, 10)

----------------------------------------------------------------------------
\* ResNet.forward (part_000 889-904), one layer at a time

Stages == {"layer1", "layer2", "layer3", "layer4"}

AfterStage(stage) ==
    CASE stage = "layer1" -> "layer2"
      [] stage = "layer2" -> "layer3"
      [] stage = "layer3" -> "layer4"
      [] stage = "layer4" -> "avgpool"

\* the value of a tensor is followed inside one block only: what a block
\* returns is the next one's "x"
Rename(t) == IF t.err # "" THEN t ELSE Tensor(t.shape, <<"x">>)

\* x becomes y and forward goes on to next, or y is an exception and forward
\* ends where it is
Goes(y, next) ==
    /\ x.err = ""
    /\ x' = y
    /\ pc' = IF y.err # "" THEN pc ELSE next

\* 890: x = self.conv1(x)
Forward_conv1 ==
    /\ pc = "conv1"
    /\ Goes(Conv2d(x, 3, 64, 7, 2, 3, "conv1"), "bn1")
    /\ UNCHANGED stepVars
    /\ UNCHANGED <<scriptVars, training, i, net, x0>>

\* 891: x = self.bn1(x)
Forward_bn1 ==
    /\ pc = "bn1"
    /\ Goes(BatchNorm2d(x, 64, training, "bn1"), "relu")
    /\ UNCHANGED stepVars
    /\ UNCHANGED <<scriptVars, training, i, net, x0>>

\* 892: x = self.relu(x)
Forward_relu ==
    /\ pc = "relu"
    /\ Goes(ReLU(x), "maxpool")
    /\ UNCHANGED stepVars
    /\ UNCHANGED <<scriptVars, training, i, net, x0>>

\* 893: x = self.maxpool(x)
Forward_maxpool ==
    /\ pc = "maxpool"
    /\ Goes(Rename(MaxPool2d(x, 3, 2, 1)), "layer1")
    /\ i' = 1
    /\ UNCHANGED stepVars
    /\ UNCHANGED <<scriptVars, training, net, x0>>

\* 895-898: the next block of the nn.Sequential of the stage
Forward_block ==
    /\ pc \in Stages
    /\ i <= Len(net[pc])
    /\ LET y == Rename(BasicBlock_forward(net[pc][i], x, training))
       IN  /\ Goes(y, pc)
           /\ i' = IF y.err # "" THEN i ELSE i + 1
    /\ UNCHANGED stepVars
    /\ UNCHANGED <<scriptVars, training, net, x0>>

\* 895-900: the stage is done, the next statement is reached
Forward_next ==
    /\ pc \in Stages
    /\ i > Len(net[pc])
    /\ x.err = ""
    /\ pc' = AfterStage(pc)
    /\ i' = 1
    /\ UNCHANGED stepVars
    /\ UNCHANGED <<scriptVars, training, net, x0, x>>

\* 900: x = self.avgpool(x)
Forward_avgpool ==
    /\ pc = "avgpool"
    /\ Goes(AdaptiveAvgPool2d(x), "flatten")
    /\ UNCHANGED stepVars
    /\ UNCHANGED <<scriptVars, training, i, net, x0>>

\* 901: x = torch.flatten(x, 1)
Forward_flatten ==
    /\ pc = "flatten"
    /\ Goes(Flatten(x), "fc")
    /\ UNCHANGED stepVars
    /\ UNCHANGED <<scriptVars, training, i, net, x0>>

\* 902-904: x = self.fc(x); return x
Forward_fc ==
    /\ pc = "fc"
    /\ Goes(Linear(x, net.fc_in, net.num_classes), "returned")
    /\ UNCHANGED stepVars
    /\ UNCHANGED <<scriptVars, training, i, net, x0>>

\* the spatial sizes tried: small ones, CIFAR's 32 and ImageNet's 224
Sides == (1..MaxSide) \cup {32, 224}

\* ResNet(BasicBlock, layers) for every layers up to MaxBlocks per stage,
\* in training mode (as constructed) or in evaluation mode, called on an
\* input of shape (N, 3, side, side)
InitNet ==
    /\ StepIdle
    /\ pc = "conv1"
    /\ caller = None
    /\ num_epochs = 0
    /\ train_loader = <<>>
    /\ val_loader = <<>>
    /\ ScriptStart
    /\ params = 0
    /\ training \in BOOLEAN
    /\ memo = <<>>
    /\ train_accuracy = Metric_reset
    /\ val_accuracy = Metric_reset
    /\ PassIdle
    /\ todo = <<>>
    /\ results = <<>>
    /\ \E layers \in [1..4 -> 0..MaxBlocks] : net = ResNet_init(layers, 10)
    /\ \E n \in 1..MaxBatch, side \in Sides :
          x0 = Tensor(<<n, 3, side, side>>, <<"x">>)
    /\ x = x0

NextNet ==
    \/ Forward_conv1
    \/ Forward_bn1
    \/ Forward_relu
    \/ Forward_maxpool
    \/ Forward_block
    \/ Forward_next
    \/ Forward_avgpool
    \/ Forward_flatten
    \/ Forward_fc

SpecNet == InitNet /\ [][NextNet]_vars

----------------------------------------------------------------------------
\* A BasicBlock on its own

\* BasicBlock(in_channels, out_channels, stride, downsample), with no
\* downsample or with the one _make_layer would build, called on an input of
\* shape (N, C, H, W)
InitBlock ==
    /\ StepIdle
    /\ pc = "block"
    /\ caller = None
    /\ num_epochs = 0
    /\ train_loader = <<>>
    /\ val_loader = <<>>
    /\ ScriptStart
    /\ params = 0
    /\ training \in BOOLEAN
    /\ memo = <<>>
    /\ train_accuracy = Metric_reset
    /\ val_accuracy = Metric_reset
    /\ PassIdle
    /\ todo = <<>>
    /\ results = <<>>
    /\ \E cin \in 1..MaxChannels, cout \in 1..MaxChannels, stride \in {1, 2} :
          \E d \in {NoDownsample, Downsample(cin, cout * expansion, stride)} :
              net = BasicBlock(cin, cout, stride, d)
    /\ \E n \in 1..MaxBatch, c \in 1..MaxChannels,
          h \in 1..MaxSide, w \in 1..MaxSide :
          x0 = Tensor(<<n, c, h, w>>, <<"x">>)
    /\ x = x0

\* block(x)
Block_call ==
    /\ pc = "block"
    /\ Goes(BasicBlock_forward(net, x, training), "block_returned")
    /\ UNCHANGED stepVars
    /\ UNCHANGED <<scriptVars, training, i, net, x0>>

NextBlock == Block_call

SpecBlock == InitBlock /\ [][NextBlock]_vars

----------------------------------------------------------------------------
\* The two CNNs of the CNN notebook: SimpleCNN (part_000 71-86) and
\* CNN_BatchNorm (part_000 272-301), forward statement by statement

\* 81: x = self.pool(torch.relu(self.conv1(x)))
SimpleCNN_block1 ==
    /\ pc = "S81"
    /\ Goes(MaxPool2d(ReLU(Conv2d(x, 3, 32, 3, 1, 1, "conv1")), 2, 2, 0),
            "S82")
    /\ UNCHANGED stepVars
    /\ UNCHANGED <<scriptVars, training, i, net, x0>>

\* 82: x = self.pool(torch.relu(self.conv2(x)))
SimpleCNN_block2 ==
    /\ pc = "S82"
    /\ Goes(MaxPool2d(ReLU(Conv2d(x, 32, 64, 3, 1, 1, "conv2")), 2, 2, 0),
            "S83")
    /\ UNCHANGED stepVars
    /\ UNCHANGED <<scriptVars, training, i, net, x0>>

\* 83: x = x.view(-1, 64 * 8 * 8)
SimpleCNN_view ==
    /\ pc = "S83"
    /\ Goes(View(x, 64 * 8 * 8), "S84")
    /\ UNCHANGED stepVars
    /\ UNCHANGED <<scriptVars, training, i, net, x0>>

\* 84: x = torch.relu(self.fc1(x))
SimpleCNN_fc1 ==
    /\ pc = "S84"
    /\ Goes(ReLU(Linear(x, 64 * 8 * 8, 128)), "S85")
    /\ UNCHANGED stepVars
    /\ UNCHANGED <<scriptVars, training, i, net, x0>>

\* 85-86: x = self.fc2(x); return x
SimpleCNN_fc2 ==
    /\ pc = "S85"
    /\ Goes(Linear(x, 128, net.num_classes), "returned")
    /\ UNCHANGED stepVars
    /\ UNCHANGED <<scriptVars, training, i, net, x0>>

\* 289: x = self.maxpool(torch.relu(self.bn1(self.conv1(x))))
CNN_BatchNorm_block1 ==
    /\ pc = "B289"
    /\ Goes(MaxPool2d(ReLU(BatchNorm2d(Conv2d(x, 3, 32, 3, 1, 1, "conv1"),
                                       32, training, "bn1")), 2, 2, 0),
            "B292")
    /\ UNCHANGED stepVars
    /\ UNCHANGED <<scriptVars, training, i, net, x0>>

\* 292: x = self.avgpool(torch.relu(self.bn2(self.conv2(x))))
CNN_BatchNorm_block2 ==
    /\ pc = "B292"
    /\ Goes(AvgPool2d(ReLU(BatchNorm2d(Conv2d(x, 32, 64, 3, 1, 1, "conv2"),
                                       64, training, "bn2")), 2, 2, 0),
            "B295")
    /\ UNCHANGED stepVars
    /\ UNCHANGED <<scriptVars, training, i, net, x0>>

\* 295: x = x.view(-1, 64 * 4 * 4)
CNN_BatchNorm_view ==
    /\ pc = "B295"
    /\ Goes(View(x, 64 * 4 * 4), "B298")
    /\ UNCHANGED stepVars
    /\ UNCHANGED <<scriptVars, training, i, net, x0>>

\* 298: x = torch.relu(self.fc1(x))
CNN_BatchNorm_fc1 ==
    /\ pc = "B298"
    /\ Goes(ReLU(Linear(x, 64 * 4 * 4, 128)), "B299")
    /\ UNCHANGED stepVars
    /\ UNCHANGED <<scriptVars, training, i, net, x0>>

\* 299-301: x = self.fc2(x); return x
CNN_BatchNorm_fc2 ==
    /\ pc = "B299"
    /\ Goes(Linear(x, 128, net.num_classes), "returned")
    /\ UNCHANGED stepVars
    /\ UNCHANGED <<scriptVars, training, i, net, x0>>

\* the class counts tried (503: num_classes = 10)
ClassCounts == {2, 10}

\* SimpleCNN(num_classes) or CNN_BatchNorm(num_classes), as the model
\* selection cell (506-511) builds them, in either mode, called on an input
\* of shape (N, 3, side, side)
InitCNN ==
    /\ StepIdle
    /\ caller = None
    /\ num_epochs = 0
    /\ train_loader = <<>>
    /\ val_loader = <<>>
    /\ ScriptStart
    /\ params = 0
    /\ training \in BOOLEAN
    /\ memo = <<>>
    /\ train_accuracy = Metric_reset
    /\ val_accuracy = Metric_reset
    /\ PassIdle
    /\ todo = <<>>
    /\ results = <<>>
    /\ \E c \in ClassCounts :
          \/ net = [model_type |-> "simple", num_classes |-> c] /\ pc = "S81"
          \/ /\ net = [model_type |-> "improved_cnn", num_classes |-> c]
             /\ pc = "B289"
    /\ \E n \in 1..MaxBatch, side \in Sides :
          x0 = Tensor(<<n, 3, side, side>>, <<"x">>)
    /\ x = x0

NextCNN ==
    \/ SimpleCNN_block1
    \/ SimpleCNN_block2
    \/ SimpleCNN_view
    \/ SimpleCNN_fc1
    \/ SimpleCNN_fc2
    \/ CNN_BatchNorm_block1
    \/ CNN_BatchNorm_block2
    \/ CNN_BatchNorm_view
    \/ CNN_BatchNorm_fc1
    \/ CNN_BatchNorm_fc2

SpecCNN == InitCNN /\ [][NextCNN]_vars

----------------------------------------------------------------------------
\* Properties of AverageMeter

RECURSIVE WeightedSum(_)
WeightedSum(h) ==
    IF h = <<>> THEN 0 ELSE Head(h)[1] * Head(h)[2] + WeightedSum(Tail(h))

RECURSIVE TotalWeight(_)
TotalWeight(h) == IF h = <<>> THEN 0 ELSE Head(h)[2] + TotalWeight(Tail(h))

\* the weighted mean of a sequence of (value, weight) pairs, 0 when the
\* total weight is 0
WeightedMean(h) ==
    IF TotalWeight(h) = 0 THEN Zero ELSE Frac(WeightedSum(h), TotalWeight(h))

\* C1: after any sequence of update(value, n) calls since construction or the
\* last reset(), avg is the weighted mean of the values; after none (or with
\* total weight 0) avg is 0, and the division by zero never happens.
C1_AvgIsWeightedMean ==
    pc = "meter" =>
        /\ avg(loss_meter) # "ZeroDivisionError"
        /\ avg(loss_meter) = WeightedMean(fed)
        /\ fed = <<>> => avg(loss_meter) = Zero

\* three updates with different weights, a negative value among them, and a
\* mean that is not 0
C1_Witness ==
    /\ pc = "meter"
    /\ Len(fed) = 3
    /\ fed[1][2] # fed[2][2]
    /\ fed[3][1] < 0
    /\ fed[3][2] > 0
    /\ avg(loss_meter) # Zero

----------------------------------------------------------------------------
\* Properties of the training script

\* C2: best_val_acc changes and the checkpoint is written exactly in the
\* decision steps (line 640) where the epoch's validation accuracy is strictly
\* greater than best_val_acc; with an equal (or lower) accuracy nothing is
\* written and best_val_acc stays.
C2_SaveIffStrictlyBetter ==
    [][ /\ pc # "L640" =>
              /\ best_val_acc' = best_val_acc
              /\ files' = files
              /\ save_log' = save_log
        /\ (pc = "L640" /\ val_acc[1] * best_val_acc[2]
                           > best_val_acc[1] * val_acc[2]) =>
              /\ best_val_acc' = val_acc
              /\ save_log' = Append(save_log, [epoch |-> epoch,
                                    path |-> "best_model.pth",
                                    params |-> params])
              /\ files'["best_model.pth"] = params
        /\ (pc = "L640" /\ val_acc[1] * best_val_acc[2]
                           <= best_val_acc[1] * val_acc[2]) =>
              /\ best_val_acc' = best_val_acc
              /\ files' = files
              /\ save_log' = save_log
      ]_vars

\* the second epoch tied with the first, which had written the checkpoint,
\* and wrote nothing
C2_Witness ==
    /\ pc = "L626"
    /\ epoch = 2
    /\ writer[1].value = writer[2].value
    /\ writer[1].value # Zero
    /\ Len(save_log) = 1
    /\ save_log[1].epoch = 0

\* the validation accuracies 0.1, 0.05, 0.3, 0.2
ExampleAccuracies == <<<<1, 10>>, <<1, 20>>, <<3, 10>>, <<1, 5>>>>

\* C3: every checkpoint write happens in an epoch whose validation accuracy is
\* strictly greater than that of every earlier epoch; a 4-epoch run with the
\* validation accuracies 0.1, 0.05, 0.3, 0.2 writes the checkpoint exactly in
\* epochs 0 and 2 and ends with best_val_acc = 0.3.
C3_WritesOnlyOnStrictImprovement ==
    /\ \A s \in 1..Len(save_log) : \A j \in 1..save_log[s].epoch :
          LET now == writer[save_log[s].epoch + 1].value
              old == writer[j].value
          IN  now[1] * old[2] > old[1] * now[2]
    /\ (/\ pc = "done"
        /\ num_epochs = 4
        /\ [k \in 1..Len(writer) |-> writer[k].value] = ExampleAccuracies) =>
          /\ [s \in 1..Len(save_log) |-> save_log[s].epoch] = <<0, 2>>
          /\ best_val_acc = <<3, 10>>

C3_Witness ==
    /\ pc = "done"
    /\ num_epochs = 4
    /\ [k \in 1..Len(writer) |-> writer[k].value] = ExampleAccuracies
    /\ Len(save_log) = 2

\* C5: every checkpoint write goes to the one path "best_model.pth" and
\* replaces what was there: at most one checkpoint file exists, and it holds
\* the parameters of the latest write.
C5_OneCheckpointFile ==
    /\ Cardinality(DOMAIN files) <= 1
    /\ \A s \in 1..Len(save_log) : save_log[s].path = "best_model.pth"
    /\ save_log # <<>> =>
          /\ DOMAIN files = {"best_model.pth"}
          /\ files["best_model.pth"] = save_log[Len(save_log)].params

\* the checkpoint was written three times and there is one file
C5_Witness ==
    /\ Len(save_log) = 3
    /\ Cardinality(DOMAIN files) = 1

\* the epoch numbers of the epoch summaries printed so far
RECURSIVE Summaries(_)
Summaries(out) ==
    IF out = <<>> THEN <<>>
    ELSE IF Head(out).line = "Epoch"
         THEN <<Head(out).epoch>> \o Summaries(Tail(out))
         ELSE Summaries(Tail(out))

\* C6: the script runs num_epochs epochs, whatever the accuracies are, and
\* then ends, having printed one summary per epoch, numbered 1..num_epochs in
\* this order.
C6_RunsAllEpochsAndEnds ==
    <>[](/\ pc = "done"
         /\ epoch = num_epochs
         /\ Summaries(stdout) = [k \in 1..num_epochs |-> k]
         /\ \A k \in 1..Len(stdout) : stdout[k].of = num_epochs)

\* a 2-epoch run has ended with 2 summaries, its second epoch not improving
C6_Witness ==
    /\ pc = "done"
    /\ num_epochs = 2
    /\ Summaries(stdout) = <<1, 2>>
    /\ Len(save_log) = 1
    /\ save_log[1].epoch = 0

\* what one epoch does, in order
EpochSchedule(e) ==
    <<<<"train_begin", e>>>>
    \o [k \in 1..Len(train_loader) |-> <<"train_batch", e, k>>]
    \o <<<<"train_end", e>>, <<"val_begin", e>>>>
    \o [k \in 1..Len(val_loader) |-> <<"val_batch", e, k>>]
    \o <<<<"val_end", e>>, <<"decide", e>>>>

RECURSIVE RunSchedule(_)
RunSchedule(n) ==
    IF n = 0 THEN <<>> ELSE RunSchedule(n - 1) \o EpochSchedule(n - 1)

\* C7: in every epoch the training pass (its batches in stream order) is
\* complete before the validation pass starts, the validation pass (its
\* batches in stream order) is complete before the checkpoint decision, and
\* the next epoch's training pass starts after that decision.
C7_EpochOrder ==
    /\ Len(trace) <= Len(RunSchedule(num_epochs))
    /\ trace = SubSeq(RunSchedule(num_epochs), 1, Len(trace))
    /\ pc = "done" => trace = RunSchedule(num_epochs)
    /\ pc = "train_loop" => trace[Len(trace)][1] \in {"train_begin", "train_batch"}
    /\ pc = "val_loop" => trace[Len(trace)][1] \in {"val_begin", "val_batch"}
    /\ pc = "L640" => trace[Len(trace)] = <<"val_end", epoch>>

\* the second epoch is in its validation pass, after a training pass of two
\* batches
C7_Witness ==
    /\ pc = "val_loop"
    /\ epoch = 1
    /\ Len(train_loader) = 2
    /\ trace[Len(trace)] = <<"val_batch", 1, 1>>

----------------------------------------------------------------------------
\* Properties of the epoch runner

\* C4: a validation pass leaves the model parameters as they were, and two
\* validation passes in a row over the same stream return the same
\* (average loss, average accuracy) pair, whatever state the accuracy metric
\* was in before the first.
C4_ValidateIsReadOnlyAndRepeatable ==
    /\ pc \in {"validate", "val_loop"} => params = results[Len(results)].before
    /\ \A r \in 1..Len(results) :
          (results[r].fn = "validate" /\ results[r].after # -1) =>
              results[r].after = results[r].before
    /\ (/\ Len(results) = 2
        /\ results[1].fn = "validate"
        /\ results[2].fn = "validate"
        /\ results[2].after # -1) =>
          results[2].out = results[1].out

\* two validation passes over three batches have returned, the metric having
\* been left non-empty by an earlier use, with some but not all predictions
\* right
C4_Witness ==
    /\ pc = "H"
    /\ Len(results) = 2
    /\ results[2].fn = "validate"
    /\ results[2].after # -1
    /\ Len(val_loader) = 3
    /\ results[2].out.acc \notin {Zero, <<1, 1>>}
    /\ results[2].out.acc = Metric_compute(val_accuracy)

\* the stream of the pass in progress
Stream == IF pc = "train_loop" THEN train_loader ELSE val_loader

\* C8: within a pass the count of the loss accumulator never decreases, each
\* batch adds its batch size to it, at the end of the pass it is the number
\* of samples of the stream, and the average loss returned is the mean of the
\* per-batch losses weighted by batch size.
C8_LossBookkeeping ==
    [][ /\ pc \in {"train_loop", "val_loop"} =>
              loss_meter'.count >= loss_meter.count
        /\ (pc \in {"train_loop", "val_loop"} /\ pc' = pc) =>
              /\ i' = i + 1
              /\ loss_meter'.count = loss_meter.count + Stream[i]
              /\ loss_meter.count = SumSeq(SubSeq(Stream, 1, i - 1))
        /\ (pc \in {"train_loop", "val_loop"} /\ pc' # pc) =>
              /\ loss_meter.count = SumSeq(Stream)
              /\ Len(fed) = Len(Stream)
              /\ \A k \in 1..Len(fed) : fed[k][2] = Stream[k]
              /\ ret'.loss = WeightedMean(fed)
      ]_vars

\* a training pass over 4 batches of 2 samples has returned, with a count of
\* 8 and per-batch losses that were not all the same
C8_Witness ==
    /\ pc = "H_ret"
    /\ results[Len(results)].fn = "train_one_epoch"
    /\ train_loader = <<2, 2, 2, 2>>
    /\ loss_meter.count = 8
    /\ fed[1][1] # fed[2][1]
    /\ ret.loss = <<3, 2>>


----------------------------------------------------------------------------
\* Properties of the ResNet

\* batch size and spatial size of the input of the forward pass
InputN == x0.shape[1]
InputSide == x0.shape[3]

\* the forward pass has ended with an exception
Raised == x.err # ""

\* every spatial size of the tensor passed from layer to layer is >= 1
SpatialSizesPositive ==
    (~Raised /\ Len(x.shape) = 4) => (x.shape[3] >= 1 /\ x.shape[4] >= 1)

\* C9 as stated: ResNet(BasicBlock, [2,2,2,2], num_classes=10) maps every
\* input of shape (N,3,224,224) or (N,3,32,32), N >= 1, to an output of shape
\* (N,10): the forward pass raises nothing, every spatial size on the way is
\* >= 1, and what it returns has shape (N,10).
C9_AsStated ==
    (net = resnet18 /\ InputSide \in {32, 224}) =>
        /\ ~Raised
        /\ SpatialSizesPositive
        /\ (pc = "returned" => x.shape = <<InputN, 10>>)

\* the one input of C9 with a single value per channel in layer4: a batch of
\* one 32x32 image is 1x1 after the stride-2 convolution of layer4
SingleValuePerChannel == InputN = 1 /\ InputSide = 32

\* C9: ResNet(BasicBlock, [2,2,2,2], num_classes=10) maps an input of shape
\* (N,3,224,224) or (N,3,32,32), N >= 1, to an output of shape (N,10) with
\* every spatial size on the way >= 1, in evaluation mode always and in
\* training mode unless N = 1 and the input is 32x32; in that case the
\* forward pass raises ValueError in bn1 of the first block of layer4 and
\* returns nothing.
C9_ShapeUnlessSingleValue ==
    (net = resnet18 /\ InputSide \in {32, 224}) =>
        /\ SpatialSizesPositive
        /\ (pc = "returned" =>
               /\ x.shape = <<InputN, 10>>
               /\ ~(training /\ SingleValuePerChannel))
        /\ (Raised =>
               /\ training /\ SingleValuePerChannel
               /\ x.err = "ValueError"
               /\ pc = "layer4" /\ i = 1)
        /\ ((training /\ SingleValuePerChannel /\ pc = "layer4" /\ i > 1)
               => Raised)

\* a batch of one 224x224 image has gone through resnet18 in training mode
C9_Witness ==
    /\ net = resnet18
    /\ training
    /\ x0.shape = <<1, 3, 224, 224>>
    /\ pc = "returned"
    /\ x.shape = <<1, 10>>

----------------------------------------------------------------------------
\* Properties of BasicBlock

\* the block has been called: it has returned or raised
BlockCalled == pc = "block_returned" \/ Raised

\* stride=1, in_channels=out_channels, no downsample, on an input of
\* in_channels channels
PlainBlock ==
    /\ net.stride = 1
    /\ net.in_channels = net.out_channels
    /\ ~net.downsample.present
    /\ x0.shape[2] = net.in_channels

\* activate(F(x) + x), F being conv1, bn1, relu, conv2, bn2
ActivateFxPlusX ==
    <<"relu", "add", "bn2", "conv2", "relu", "bn1", "conv1", "x", "x">>

\* C10 as stated: a BasicBlock with stride=1, in_channels=out_channels and no
\* downsample returns, for every input (N,C,H,W), a tensor of the shape of
\* the input which is activate(F(x) + x), x the unmodified input.
C10_AsStated ==
    (PlainBlock /\ BlockCalled) =>
        /\ ~Raised
        /\ x.shape = x0.shape
        /\ x.val = ActivateFxPlusX

\* the input has one value per channel
OneValuePerChannel == x0.shape[1] * x0.shape[3] * x0.shape[4] = 1

\* C10: a BasicBlock with stride=1, in_channels=out_channels and no
\* downsample returns, for every input (N,C,H,W) but one of N*H*W = 1 in
\* training mode, a tensor of the shape of the input which is
\* activate(F(x) + x), x the unmodified input; on an input of N*H*W = 1 in
\* training mode it raises ValueError.
C10_IdentityShortcutUnlessOneValue ==
    (PlainBlock /\ BlockCalled) =>
        IF training /\ OneValuePerChannel
        THEN x.err = "ValueError"
        ELSE /\ ~Raised
             /\ x.shape = x0.shape
             /\ x.val = ActivateFxPlusX

\* a plain block of 2 channels has returned on an input (1,2,1,3) in
\* training mode
C10_Witness ==
    /\ PlainBlock
    /\ training
    /\ pc = "block_returned"
    /\ x0.shape = <<1, 2, 1, 3>>
    /\ x.shape = <<1, 2, 1, 3>>
    /\ x.val = ActivateFxPlusX


\* the block has the downsample _make_layer builds for it, and is called on
\* an input of in_channels channels
DownsampledBlock ==
    /\ net.downsample.present
    /\ x0.shape[2] = net.in_channels

\* what conv1 of the block makes of the batch: N * H' * W' values per channel
ValuesPerChannel ==
    x0.shape[1] * WindowOut(x0.shape[3], 3, net.stride, 1)
                * WindowOut(x0.shape[4], 3, net.stride, 1)

\* C11: a BasicBlock with a downsample returns a tensor of out_channels
\* channels, whatever in_channels and stride it was built with; the one call
\* that returns nothing is that of training mode on a batch conv1 reduces to
\* one value per channel, which raises ValueError.
C11_DownsampledBlockWidth ==
    (DownsampledBlock /\ BlockCalled) =>
        IF training /\ ValuesPerChannel = 1
        THEN x.err = "ValueError"
        ELSE /\ ~Raised
             /\ Len(x.shape) = 4
             /\ x.shape[1] = x0.shape[1]
             /\ x.shape[2] = net.out_channels

\* a block built with in_channels=1, out_channels=2, stride=2 has returned
\* 2 channels for an input of 1 channel
C11_Witness ==
    /\ DownsampledBlock
    /\ net.in_channels = 1 /\ net.out_channels = 2 /\ net.stride = 2
    /\ pc = "block_returned"
    /\ x0.shape = <<1, 1, 3, 3>>
    /\ x.shape = <<1, 2, 2, 2>>


----------------------------------------------------------------------------
\* Properties of the passes on an empty stream

\* the passes that have returned
Returned == {k \in 1..Len(results) : results[k].after # -1}

\* C12: train_one_epoch and validate over a stream of zero batches feed
\* nothing to the loss accumulator, whose average is then 0 and not the
\* result of a division by zero: the average_loss they return is 0.
C12_EmptyStreamLossIsZero ==
    (train_loader = <<>> /\ val_loader = <<>>) =>
        /\ fed = <<>>
        /\ loss_meter.count = 0
        /\ \A k \in Returned : results[k].out.loss = Zero

\* train_one_epoch has returned from a stream of zero batches
C12_Witness ==
    /\ train_loader = <<>>
    /\ Len(results) = 1
    /\ results[1].fn = "train_one_epoch"
    /\ results[1].after # -1
    /\ results[1].out.loss = Zero


----------------------------------------------------------------------------
\* Properties of the training loops, statement by statement

\* control is in train_one_epoch (otherwise in the from-scratch loop)
InTrainOneEpoch ==
    pc \in {"L547", "L552", "L555", "L556", "L558", "L559", "L560", "L563",
            "L569", "returned"}

\* the statements logged for batch k of epoch e, in the order they ran
StepsOf(e, k) ==
    LET sel == SelectSeq(trace, LAMBDA t : t[2] = e /\ t[3] = k)
    IN  [j \in 1..Len(sel) |-> sel[j][1]]

IsPrefix(a, b) == Len(a) <= Len(b) /\ a = SubSeq(b, 1, Len(a))

\* the batches logged so far
LoggedBatches == {<<trace[j][2], trace[j][3]>> : j \in 1..Len(trace)}

\* C13 as stated: for each batch the steps are, in this order, predictions,
\* loss, gradient propagation, parameter update, and then the reset of the
\* accumulated gradients.
C13_AsStated ==
    \A b \in LoggedBatches :
        IsPrefix(StepsOf(b[1], b[2]),
                 <<"forward", "loss", "backward", "step", "zero_grad">>)

\* the order of the statements of one batch in train_one_epoch (555-560) and
\* in the from-scratch loop (998-1002)
TrainOrder == <<"forward", "loss", "zero_grad", "backward", "step">>
ScratchOrder == <<"zero_grad", "forward", "loss", "backward", "step">>

\* C13: for each batch train_one_epoch performs, in this order, predictions,
\* loss, reset of the accumulated gradients, gradient propagation, parameter
\* update; the from-scratch loop resets the gradients first and then does
\* predictions, loss, propagation, update. A batch is finished before the
\* next begins, batches run in stream order, and no reset follows the update:
\* when train_one_epoch returns from a non-empty stream the gradients of the
\* last batch are still in place.
C13_ResetBeforeBackward ==
    LET order == IF InTrainOneEpoch THEN TrainOrder ELSE ScratchOrder
        n == Len(train_loader)
    IN  /\ \A j \in 1..Len(trace) :
              /\ trace[j][1] = order[((j - 1) % 5) + 1]
              /\ trace[j][2] = ((j - 1) \div 5) \div n
              /\ trace[j][3] = (((j - 1) \div 5) % n) + 1
        /\ (pc = "returned" /\ n > 0) =>
              /\ Len(trace) = 5 * n
              /\ grad = <<n>>

\* train_one_epoch has returned from a stream of two batches
C13_Witness ==
    /\ pc = "returned"
    /\ Len(train_loader) = 2
    /\ Len(trace) = 10
    /\ StepsOf(0, 2) = TrainOrder
    /\ grad = <<2>>


----------------------------------------------------------------------------
\* Mode discipline

\* C14: whatever passes and show_sample_predictions calls came before, the
\* model is in inference mode while a validation pass is at its batches, and
\* in training mode while a training pass is at its batches.
C14_ModeDiscipline ==
    /\ pc = "val_loop" => ~training
    /\ pc = "train_loop" => training

\* a training pass is at its second batch after a validation pass and a
\* show_sample_predictions call have left the model in inference mode
C14_Witness ==
    /\ Len(results) = 3
    /\ results[1].fn = "validate"
    /\ results[2].fn = "show_sample_predictions"
    /\ results[3].fn = "train_one_epoch"
    /\ pc = "train_loop"
    /\ i = 2
    /\ training


----------------------------------------------------------------------------
\* Ownership of the parameters

\* C15: in a run of the training script the parameters change only in a
\* batch of a training pass, by the optimizer step; the validation pass, the
\* scalar logging, the printing and the saving of the checkpoint leave them
\* as they are.
C15_ParamsChangeOnlyInUpdate ==
    [][ /\ params' # params =>
              /\ pc = "train_loop" /\ pc' = "train_loop"
              /\ i <= Len(train_loader)
              /\ params' = optimizer_step(params)
        /\ pc \in {"validate", "val_loop", "L627", "L628", "L640", "L646"} =>
              params' = params
      ]_vars

\* two epochs have run, a checkpoint has been saved, and the parameters have
\* been updated once per training batch
C15_Witness ==
    /\ pc = "L626"
    /\ epoch = 2
    /\ save_log # <<>>
    /\ Len(writer) = 2
    /\ params = 2 * Len(train_loader)
    /\ params > 0


----------------------------------------------------------------------------
\* Failure of a pass

\* an exception has been raised in a pass
FailureLogged(t) == \E j \in 1..Len(t) : t[j][1] = "failed"

\* C16: when a pass fails in epoch k nothing catches the exception: the
\* script is over (no statement runs after it, so no later epoch does), the
\* failing step changes neither best_val_acc nor the checkpoint, every write
\* of the checkpoint dates from an epoch before k, and the checkpoint and
\* best_val_acc are those of the last such write (no file and 0.0 if there
\* was none).
C16_FailureEndsTheRun ==
    [][ /\ pc # "failed"
        /\ FailureLogged(trace') => pc' = "failed"
        /\ pc' = "failed" =>
              /\ pc \in {"train_loop", "val_loop"}
              /\ UNCHANGED <<epoch, best_val_acc, files, save_log, writer,
                             stdout>>
              /\ \A s \in 1..Len(save_log) : save_log[s].epoch < epoch
              /\ IF save_log = <<>>
                 THEN files = <<>> /\ best_val_acc = Zero
                 ELSE LET last == save_log[Len(save_log)]
                      IN  /\ files = torch_save(<<>>, "best_model.pth",
                                                last.params)
                          /\ best_val_acc = writer[last.epoch + 1].value
      ]_vars

\* the validation pass of epoch 2 has failed; the checkpoint is that of
\* epoch 0, the one improving epoch before
C16_Witness ==
    /\ pc = "failed"
    /\ epoch = 2
    /\ trace[Len(trace)] = <<"failed", 2, "validate">>
    /\ Len(save_log) = 1
    /\ save_log[1].epoch = 0
    /\ files["best_model.pth"] = save_log[1].params
    /\ num_epochs = 4


----------------------------------------------------------------------------
\* Properties of the assembled ResNet

\* the forward pass is about to call a block
AtBlock == pc \in Stages /\ i <= Len(net[pc]) /\ ~Raised

\* C17: in a network built by _make_layer a block has a downsample exactly
\* when its stride is not 1 or its in_channels differ from its out_channels
\* (times expansion); and at every block the forward pass reaches, the input
\* has the block's in_channels, neither path fails on a shape, and the main
\* path and the shortcut, when both are computed, have the same shape at
\* out += identity.
C17_ShapesMatchAtMerge ==
    /\ \A stage \in Stages : \A j \in 1..Len(net[stage]) :
          LET b == net[stage][j]
          IN  b.downsample.present <=>
                 (b.stride # 1 \/ b.in_channels # b.out_channels * expansion)
    /\ AtBlock =>
          LET b == net[pc][i]
              main == BasicBlock_main(b, x, training)
              short == BasicBlock_shortcut(b, x, training)
          IN  /\ x.shape[2] = b.in_channels
              /\ main.err # "RuntimeError"
              /\ short.err # "RuntimeError"
              /\ (main.err = "" /\ short.err = "") =>
                    /\ main.shape = short.shape
                    /\ AddInPlace(main, short).err = ""

\* the first block of layer2 of resnet18 is about to halve an 8x8 map of 64
\* channels on both paths
C17_Witness ==
    /\ net = resnet18
    /\ pc = "layer2" /\ i = 1
    /\ x.shape = <<2, 64, 8, 8>>
    /\ net[pc][i].downsample.present
    /\ BasicBlock_main(net[pc][i], x, training).shape = <<2, 128, 4, 4>>
    /\ BasicBlock_shortcut(net[pc][i], x, training).shape = <<2, 128, 4, 4>>


\* the stages in order, their widths W_i and the strides S_i of their first
\* blocks (865-868)
StageName == <<"layer1", "layer2", "layer3", "layer4">>
StageWidth == <<64, 128, 256, 512>>
StageStride == <<1, 2, 2, 2>>

\* self.in_channels when stage s is assembled: 64 (858), then the width of
\* the stage before
TrackerBefore(s) == IF s = 1 THEN 64 ELSE StageWidth[s - 1] * expansion

\* the first block of stage s has stride S_i, the later ones have stride 1
\* and no downsample, every block has the stage's width, and after the stage
\* the tracker is W_i
StageShape(s) ==
    LET made == make_layer(TrackerBefore(s), StageWidth[s], net.layers[s],
                           StageStride[s])
        stage == net[StageName[s]]
    IN  /\ stage = made.blocks
        /\ made.in_channels = StageWidth[s]
        /\ stage[1].stride = StageStride[s]
        /\ stage[1].in_channels = TrackerBefore(s)
        /\ \A j \in 1..Len(stage) : stage[j].out_channels = StageWidth[s]
        /\ \A j \in 2..Len(stage) :
              /\ stage[j].stride = 1
              /\ stage[j].in_channels = StageWidth[s]
              /\ ~stage[j].downsample.present

\* C18 as stated: for every stage and every block count layers[i] the stage
\* has exactly layers[i] blocks, of the shape above.
C18_AsStated ==
    \A s \in 1..4 :
        /\ Len(net[StageName[s]]) = net.layers[s]
        /\ StageShape(s)

\* C18: for every stage and every block count layers[i] >= 1 the stage has
\* exactly layers[i] blocks; for a block count of 0 it still has one block,
\* the first, which _make_layer appends before it counts. In both cases the
\* first block has stride S_i, the later ones stride 1 and no downsample,
\* and after the stage the tracker is W_i.
C18_AtLeastOneBlockPerStage ==
    \A s \in 1..4 :
        /\ Len(net[StageName[s]]) =
              IF net.layers[s] >= 1 THEN net.layers[s] ELSE 1
        /\ StageShape(s)

\* a network asked for no block in layer2 has one there, and its forward
\* pass has gone through
C18_Witness ==
    /\ net.layers = <<2, 0, 2, 2>>
    /\ Len(net.layer2) = 1
    /\ Len(net.layer1) = 2
    /\ pc = "returned"
    /\ x.shape = <<2, 10>>


\* the step takes a feature map (N, C, H, W) to a feature map
MapToMap == Len(x.shape) = 4 /\ x'.err = "" /\ Len(x'.shape) = 4

WidthChanges == x'.shape[2] # x.shape[2]
ResolutionDrops == x'.shape[3] < x.shape[3] \/ x'.shape[4] < x.shape[4]

\* the step is the first block of a stage
FirstBlockOfStage == pc \in Stages /\ i = 1 /\ i <= Len(net[pc])

\* the step is in the stem (conv1, bn1, relu, maxpool)
InStem == pc \in {"conv1", "bn1", "relu", "maxpool"}

\* C19 as stated: along the forward path the channel width changes only at
\* the first block of a stage, where it increases, and the spatial
\* resolution decreases only at the stem or at the first block of a stride-2
\* stage.
C19_AsStated ==
    [][ MapToMap =>
          /\ WidthChanges =>
                (FirstBlockOfStage /\ x'.shape[2] > x.shape[2])
          /\ ResolutionDrops =>
                (InStem \/ (FirstBlockOfStage /\ net[pc][1].stride = 2))
      ]_vars

\* C19: along the forward path the channel width changes only at the stem
\* convolution (3 to 64) and at the first block of a stage, and only
\* increases; the spatial resolution decreases only at the stem, at the
\* first block of a stride-2 stage and at the global average pooling after
\* layer4; a block that is not the first of its stage leaves the shape of
\* the feature map as it is.
C19_WidthAndResolutionAtBoundaries ==
    [][ MapToMap =>
          /\ WidthChanges =>
                /\ pc = "conv1" \/ FirstBlockOfStage
                /\ x'.shape[2] > x.shape[2]
          /\ ResolutionDrops =>
                \/ InStem
                \/ FirstBlockOfStage /\ net[pc][1].stride = 2
                \/ pc = "avgpool"
          /\ (pc \in Stages /\ i > 1) => x'.shape = x.shape
          /\ pc \in Stages => x'.shape[3] <= x.shape[3]
      ]_vars

\* resnet18 is past the first block of layer2, which has doubled the width
\* and halved the resolution of an 8x8 map
C19_Witness ==
    /\ net = resnet18
    /\ x0.shape = <<2, 3, 32, 32>>
    /\ pc = "layer2" /\ i = 2
    /\ x.shape = <<2, 128, 4, 4>>


----------------------------------------------------------------------------
\* The epoch loss of the from-scratch loop against the Metric Accumulator

\* the AverageMeter that has been fed the (loss value, batch size) pairs h
RECURSIVE MeterFed(_)
MeterFed(h) ==
    IF h = <<>> THEN AverageMeter_init
    ELSE LET last == h[Len(h)]
         IN  AverageMeter_update(MeterFed(SubSeq(h, 1, Len(h) - 1)),
                                 last[1], last[2])

\* C20 as stated: at the end of an epoch over a non-empty stream the
\* from-scratch loop prints a loss, and the loss it prints is the average an
\* AverageMeter fed the (loss value, batch size) pairs of the epoch's batches
\* reports, whatever the batch sizes.
C20_AsStated ==
    [][ (pc = "L1006" /\ train_loader # <<>>) =>
          /\ pc' = "L992"
          /\ stdout'[Len(stdout')].loss = avg(MeterFed(fed))
      ]_vars


----------------------------------------------------------------------------
\* Properties of the CNNs

\* the network is called on an input of shape (N, 3, 32, 32)
CifarInput == x0.shape[2] = 3 /\ x0.shape[3] = 32 /\ x0.shape[4] = 32

\* C21: on an input (N, 3, 32, 32) SimpleCNN.forward raises nothing and x
\* has shape (N, 32, 16, 16) after the first convolution and pooling,
\* (N, 64, 8, 8) after the second, (N, 4096) after the view (so the inferred
\* -1 is N), (N, 128) after fc1, and (N, num_classes) when it is returned.
C21_SimpleCNNShapes ==
    (net.model_type = "simple" /\ CifarInput) =>
        /\ ~Raised
        /\ pc = "S82" => x.shape = <<InputN, 32, 16, 16>>
        /\ pc = "S83" => x.shape = <<InputN, 64, 8, 8>>
        /\ pc = "S84" => x.shape = <<InputN, 4096>>
        /\ pc = "S85" => x.shape = <<InputN, 128>>
        /\ pc = "returned" => x.shape = <<InputN, net.num_classes>>

\* SimpleCNN(num_classes=10) has returned (2, 10) for an input (2, 3, 32, 32)
C21_Witness ==
    /\ net.model_type = "simple"
    /\ net.num_classes = 10
    /\ x0.shape = <<2, 3, 32, 32>>
    /\ pc = "returned"
    /\ x.shape = <<2, 10>>
    /\ x.val = <<"fc", "relu", "fc", "view", "maxpool", "relu", "conv2",
                "maxpool", "relu", "conv1", "x">>

\* C24 as stated: on an input (N, 3, 32, 32) CNN_BatchNorm.forward raises
\* nothing, what reaches the view has 64 * 4 * 4 values per image, and the
\* tensor returned has shape (N, num_classes).
C24_AsStated ==
    (net.model_type = "improved_cnn" /\ CifarInput) =>
        /\ ~Raised
        /\ pc = "B295" => x.shape[2] * x.shape[3] * x.shape[4] = 64 * 4 * 4
        /\ pc = "returned" => x.shape = <<InputN, net.num_classes>>

----------------------------------------------------------------------------
\* Properties of the best-model bookkeeping over a whole run

\* the validation accuracies logged so far, epoch by epoch
ValAccs == [k \in 1..Len(writer) |-> writer[k].value]

FracEQ(p, q) == p[1] * q[2] = q[1] * p[2]

\* the largest of 0.0 and the first n validation accuracies
RECURSIVE MaxAcc(_)
MaxAcc(n) ==
    IF n = 0 THEN Zero
    ELSE LET m == MaxAcc(n - 1)
         IN  IF FracGT(ValAccs[n], m) THEN ValAccs[n] ELSE m

\* C22: at the end of every epoch best_val_acc is the maximum of the initial
\* 0.0 and every validation accuracy so far, and a checkpoint has been written
\* if and only if some validation accuracy so far was strictly greater than
\* 0.0; best_val_acc never decreases.
C22_BestIsRunningMax ==
    /\ [](pc = "L626" =>
            /\ Len(writer) = epoch
            /\ best_val_acc = MaxAcc(epoch)
            /\ (files # <<>>) <=>
                   (\E k \in 1..epoch : FracGT(ValAccs[k], Zero)))
    /\ [][FracGE(best_val_acc', best_val_acc)]_vars

\* three epochs are over: the first found nothing right, the second set the
\* best, the third was worse
C22_Witness ==
    /\ pc = "L626"
    /\ epoch = 3
    /\ ValAccs = <<Zero, Frac(2, ValSamples), Frac(1, ValSamples)>>
    /\ best_val_acc = Frac(2, ValSamples)
    /\ files # <<>>

\* the epoch (from 0) whose validation accuracy first equalled best_val_acc
BestEpoch ==
    CHOOSE e \in 0..(Len(writer) - 1) :
        /\ FracEQ(ValAccs[e + 1], best_val_acc)
        /\ \A j \in 0..(e - 1) : ~FracEQ(ValAccs[j + 1], best_val_acc)

\* the parameters when the training pass of epoch e has returned: one
\* optimizer step for every batch of every pass so far
ParamsAfterTraining(e) == (e + 1) * Len(train_loader)

\* C23: whenever a checkpoint exists it holds the parameters as they were
\* after the training pass of the earliest epoch whose validation accuracy
\* equals the current best_val_acc; training passes change the live
\* parameters but not the checkpoint, and an epoch whose validation accuracy
\* is equal to or lower than best_val_acc does not replace it.
C23_CheckpointIsEarliestBest ==
    /\ [](files # <<>> =>
            /\ DOMAIN files = {"best_model.pth"}
            /\ files["best_model.pth"] = ParamsAfterTraining(BestEpoch)
            /\ save_log[Len(save_log)].epoch = BestEpoch)
    /\ [][ /\ params' # params => files' = files
           /\ (pc = "L640" /\ FracGE(best_val_acc, val_acc)) => files' = files
         ]_vars

\* the second epoch set the best, the third tied with it and the fourth has
\* trained: the checkpoint still holds the second epoch's parameters
C23_Witness ==
    /\ pc = "L627"
    /\ epoch = 3
    /\ ValAccs = <<Frac(1, ValSamples), Frac(2, ValSamples),
                   Frac(2, ValSamples)>>
    /\ files = [p \in {"best_model.pth"} |-> ParamsAfterTraining(1)]
    /\ params = ParamsAfterTraining(3)
    /\ Len(save_log) = 2

----------------------------------------------------------------------------
\* Gradients across batches

\* C25: in train_one_epoch and in the from-scratch loop the gradients are
\* empty when a batch's backward pass begins, whatever an earlier batch, an
\* earlier epoch or the time before the loop left in them, and the gradients
\* an optimizer step consumes are those of the current batch alone.
C25_GradientOfCurrentBatchOnly ==
    /\ pc \in {"L559", "L1001"} => grad = <<>>
    /\ pc \in {"L560", "L1002"} => grad = <<i>>

\* the from-scratch loop is at the optimizer step of the second batch of its
\* second epoch
C25_Witness ==
    /\ pc = "L1002"
    /\ epoch = 1
    /\ i = 2
    /\ grad = <<2>>
    /\ Len(trace) > 5 * Len(train_loader)

\* train_one_epoch, entered with gradients left from before, is at the
\* optimizer step of its second batch
C25_WitnessTrainOneEpoch ==
    /\ pc = "L560"
    /\ i = 2
    /\ grad = <<2>>

====
